---- MODULE Spec2Model ----
(***************************************************************************)
(* Usage gating and caching layer of the SubText backend: the per-identity *)
(* rate limiter, the content cache, the monthly usage accountant and the   *)
(* POST /api/ocr handler that strings them together, with the subscription *)
(* changes (webhooks, cancel endpoint) that run concurrently with it.      *)
(*                                                                         *)
(* Granularity: Node runs the code between two awaits without interruption,*)
(* so one action is one awaited call (store query, auth lookup, vision     *)
(* fetch) together with the synchronous code that follows it up to the     *)
(* next await.  Every awaited call may also fail.                          *)
(***************************************************************************)
EXTENDS Integers, Sequences, FiniteSets, TLC

\* ---------------------------------------------------------------- constants

CACHE_TTL == 3600000
RATE_LIMIT_WINDOW == 3600000
RATE_LIMIT_MAX == 20
CACHE_MAX_SIZE == 100
BASIC_LIMIT == 25
PRO_LIMIT == 100
UNLIMITED == -1

\* limit field of SUBSCRIPTION_PLANS[tier]
PlanLimit(tier) ==
  CASE tier = "basic" -> BASIC_LIMIT
    [] tier = "pro" -> PRO_LIMIT
    [] tier = "premium" -> UNLIMITED

\* ------------------------------------------------------------------- bounds

MaxTicks == 2        \* clock advances in one behaviour
MaxEvents == 1       \* subscription events (webhook, cancel) in one behaviour
MaxCalls == 22       \* direct checkRateLimit calls in SpecRate
MaxOtherCalls == 1   \* direct calls by the second identity
MaxIncrements == 3   \* direct incrementUsage calls in SpecUsage
HashLen == 2         \* hex digits kept of the md5 digest
MaxContentLen == 5   \* tokens in a vision answer
MaxMessages == 3     \* elements of the messages array of an analyze request
MaxDeliveries == 2   \* deliveries of one webhook event
MaxSubEvents == 2    \* create, cancel and webhook requests on the row table

\* --------------------------------------------------------------- identities

\* user ids are strings; a string is a sequence of characters
U1 == <<"a">>
U2 == <<"a", "_", "0">>
Users == {U1, U2}

\* uploaded image buffers, by content
Images == {1, 2}

Reqs == {1, 2}

\* ------------------------------------------------------------ pure helpers

HexDigits == <<"0","1","2","3","4","5","6","7","8","9","a","b","c","d","e","f">>

RECURSIVE Pow16(_)
Pow16(n) == IF n = 0 THEN 1 ELSE 16 * Pow16(n - 1)

RECURSIVE HexOf(_, _)
\* n written with len hex digits, most significant first
HexOf(n, len) ==
  IF len = 0 THEN <<>>
  ELSE HexOf(n \div 16, len - 1) \o <<HexDigits[(n % 16) + 1]>>

\* crypto.createHash('md5').update(buffer).digest('hex'): a fixed-length hex
\* string that depends on the bytes alone
Md5Hex(buffer) == HexOf((buffer * 7 + 3) % Pow16(HashLen), HashLen)

generateCacheKeyNoUser(buffer, userId) == Md5Hex(buffer)

generateCacheKey(buffer, userId) == userId \o <<"_">> \o Md5Hex(buffer)

\* a filter that keeps a timestamp exactly one window old
RECURSIVE FilterInclusive(_, _)
FilterInclusive(s, now0) ==
  IF s = <<>> THEN <<>>
  ELSE IF now0 - Head(s) <= RATE_LIMIT_WINDOW
       THEN <<Head(s)>> \o FilterInclusive(Tail(s), now0)
       ELSE FilterInclusive(Tail(s), now0)

\* Array.prototype.filter
RECURSIVE Filter(_, _)
Filter(s, now0) ==
  IF s = <<>> THEN <<>>
  ELSE IF now0 - Head(s) < RATE_LIMIT_WINDOW
       THEN <<Head(s)>> \o Filter(Tail(s), now0)
       ELSE Filter(Tail(s), now0)


\* String.prototype.trim over a token sequence: " " is a whitespace token
RECURSIVE TrimLeft(_)
TrimLeft(s) == IF s # <<>> /\ Head(s) = " " THEN TrimLeft(Tail(s)) ELSE s

RECURSIVE TrimRight(_)
TrimRight(s) ==
  IF s # <<>> /\ s[Len(s)] = " " THEN TrimRight(SubSeq(s, 1, Len(s) - 1)) ELSE s

Trim(s) == TrimRight(TrimLeft(s))

\* String.prototype.indexOf for one token, 0-based, -1 when absent
IndexOf(s, tok) ==
  IF \E i \in 1..Len(s) : s[i] = tok
  THEN (CHOOSE i \in 1..Len(s) : s[i] = tok /\ \A j \in 1..(i - 1) : s[j] # tok) - 1
  ELSE -1

Includes(s, tok) == \E i \in 1..Len(s) : s[i] = tok

\* String.prototype.substring(a, b) with 0-based arguments: negative
\* arguments count as 0 and the two are swapped when a > b
Substring(s, a, b) ==
  LET a0 == IF a < 0 THEN 0 ELSE IF a > Len(s) THEN Len(s) ELSE a
      b0 == IF b < 0 THEN 0 ELSE IF b > Len(s) THEN Len(s) ELSE b
      lo == IF a0 <= b0 THEN a0 ELSE b0
      hi == IF a0 <= b0 THEN b0 ELSE a0
  IN SubSeq(s, lo + 1, hi)

START_MARKER == "RECEIVED_MESSAGES_START"
END_MARKER == "RECEIVED_MESSAGES_END"

\* lines 349-351: the not-a-conversation sentinels
IsNotConversation(content) ==
  \/ Includes(content, "ERROR:")
  \/ Includes(content, "does not contain text messages")
  \/ Includes(content, "not a conversation")

\* lines 358-379: marker extraction
ExtractMarked(content) ==
  LET startIndex == IndexOf(content, START_MARKER)
      endIndex == IndexOf(content, END_MARKER)
  IN IF startIndex # -1 /\ endIndex # -1
     THEN Trim(Substring(content, startIndex + 1, endIndex))
     ELSE content

\* lines 382-388: validation of the extracted text
IsErrorMessage(text) ==
  \/ Includes(text, "no text messages")
  \/ Includes(text, "cannot identify")
  \/ Includes(text, "unable to")
  \/ (text # <<>> /\ Head(text) = "error")

HasContent(text) == Len(Trim(text)) > 0

\* ---------------------------------------------------------------- the store

NULL_TIME == -1
FAR_FUTURE == 100 * CACHE_TTL

NoSub == [found |-> FALSE]

\* process.env.PAYPAL_<TIER>_PLAN_ID
PlanIdOf(tier) == IF tier = "basic" THEN "P-basic"
                  ELSE IF tier = "pro" THEN "P-pro" ELSE "P-premium"

SubRow(status, tier, expires, pid) ==
  [found |-> TRUE, status |-> status, tier |-> tier,
   monthly_limit |-> PlanLimit(tier), expires_at |-> expires,
   paypal_subscription_id |-> pid, paypal_plan_id |-> PlanIdOf(tier)]

PaypalId(u) == IF u = U1 THEN "I-1" ELSE "I-2"

NoUsage == [id |-> 0]

VARIABLES
  now,             \* Date.now(), in ms
  ticks,           \* clock advances so far
  currentMonth,    \* new Date().toISOString().slice(0, 7), as a month number
  rateLimitMap,    \* userId -> accepted timestamps (absent key = <<>>)
  analysisCache,   \* the Map, as its entries in insertion order
  inserted,        \* number of keys ever inserted in analysisCache
  subscriptions,   \* table subscriptions, one row per user_id
  usage_tracking,  \* table usage_tracking, row id = position
  req,             \* the OCR requests in flight
  cancel,          \* the cancel request in flight
  events,          \* subscription events so far
  rateLog,         \* per user, the direct checkRateLimit calls: time, result
  usageLog,        \* per user, the direct incrementUsage calls
  parsed,          \* a vision answer going through lines 342-379
  hook,            \* the webhook request in flight
  deliveries,      \* the webhook requests answered so far
  statusReq,       \* the GET /api/subscription/status request in flight
  analyzeReq,      \* the POST /api/analyze request in flight
  subscriptionRows, \* table subscriptions, as the list of its rows
  createReq        \* the create-subscription request in flight

\* the records of the direct callers
log == <<rateLog, usageLog>>

\* the state of the other endpoints
endpoints == <<parsed, hook, deliveries, statusReq, analyzeReq>>

vars == <<now, ticks, currentMonth, rateLimitMap, analysisCache, inserted,
          subscriptions, usage_tracking, req, cancel, events, rateLog, usageLog,
          parsed, hook, deliveries, statusReq, analyzeReq,
          subscriptionRows, createReq>>

\* ------------------------------------------------------------ rate limiter

\* a limiter that stores the time of the call only
checkRateLimitForgetful(map, userId, t) ==
  LET recentRequests == Filter(map[userId], t)
  IN IF Len(recentRequests) >= RATE_LIMIT_MAX
     THEN [ok |-> FALSE, map |-> map]
     ELSE [ok |-> TRUE, map |-> [map EXCEPT ![userId] = <<t>>]]

checkRateLimitRecordRejected(map, userId, t) ==
  LET recentRequests == Filter(map[userId], t)
  IN IF Len(recentRequests) >= RATE_LIMIT_MAX
     THEN [ok |-> FALSE, map |-> [map EXCEPT ![userId] = Append(Tail(recentRequests), t)]]
     ELSE [ok |-> TRUE, map |-> [map EXCEPT ![userId] = Append(recentRequests, t)]]

checkRateLimitOffByOne(map, userId, t) ==
  LET recentRequests == Filter(map[userId], t)
  IN IF Len(recentRequests) > RATE_LIMIT_MAX
     THEN [ok |-> FALSE, map |-> map]
     ELSE [ok |-> TRUE, map |-> [map EXCEPT ![userId] = Append(recentRequests, t)]]

checkRateLimit(map, userId, t) ==
  LET recentRequests == Filter(map[userId], t)
  IN IF Len(recentRequests) >= RATE_LIMIT_MAX
     THEN [ok |-> FALSE, map |-> map]
     ELSE [ok |-> TRUE, map |-> [map EXCEPT ![userId] = Append(recentRequests, t)]]

\* ------------------------------------------------------------ content cache

\* position of key in the Map, 0 when absent
CacheIndex(cache, key) ==
  IF \E i \in 1..Len(cache) : cache[i].key = key
  THEN CHOOSE i \in 1..Len(cache) : cache[i].key = key
  ELSE 0

\* a set that moves a present key to the back, as a delete followed by a set
CacheSetMoveToBack(cache, key, text, t, owner, ord) ==
  LET others == SelectSeq(cache, LAMBDA e : e.key # key)
  IN Append(others, [key |-> key, text |-> text, timestamp |-> t,
                     owner |-> owner, ord |-> ord])

\* Map.prototype.set: a present key keeps its position
CacheSet(cache, key, text, t, owner, ord) ==
  LET i == CacheIndex(cache, key)
  IN IF i # 0
     THEN [cache EXCEPT ![i] = [@ EXCEPT !.text = text, !.timestamp = t, !.owner = owner]]
     ELSE Append(cache, [key |-> key, text |-> text, timestamp |-> t,
                         owner |-> owner, ord |-> ord])

CacheCleanupNever(cache) == cache

CacheCleanupLast(cache) ==
  IF Len(cache) > CACHE_MAX_SIZE THEN SubSeq(cache, 1, Len(cache) - 1) ELSE cache

\* lines 406-410: drop the first key of the Map when it holds more than 100
CacheCleanup(cache) ==
  IF Len(cache) > CACHE_MAX_SIZE THEN Tail(cache) ELSE cache

CacheFreshLate(entry, t) == t - entry.timestamp <= CACHE_TTL

\* line 237: the entry is served only while younger than CACHE_TTL
CacheFresh(entry, t) == t - entry.timestamp < CACHE_TTL

\* --------------------------------------------------------- usage accountant

getUserSubscriptionAnyStatus(subs, userId) == subs[userId]

\* .eq('user_id', userId).eq('status', 'active').single()
getUserSubscription(subs, userId) ==
  IF subs[userId].found /\ subs[userId].status = "active"
  THEN subs[userId] ELSE NoSub

\* new Date(expires_at) > now; a null expires_at is never in the future
NotExpired(sub, t) == sub.expires_at # NULL_TIME /\ sub.expires_at > t

\* rows matching .eq('user_id', userId).eq('month', currentMonth)
UsageMatch(table, userId, month) ==
  {i \in 1..Len(table) : table[i].user_id = userId /\ table[i].month = month}

\* .single(): the row when exactly one matches, else the PGRST116 error
UsageSingle(table, userId, month) ==
  LET ids == UsageMatch(table, userId, month)
  IN IF Cardinality(ids) = 1
     THEN LET i == CHOOSE j \in ids : TRUE
          IN [id |-> i, analyses_count |-> table[i].analyses_count]
     ELSE NoUsage

UsageInsert(table, userId, month) ==
  Append(table, [user_id |-> userId, month |-> month, analyses_count |-> 0])

LimitExceededStrict(count, limit) == count > limit

\* line 250
LimitExceeded(count, limit) == count >= limit


\* ------------------------------------------------------ POST /api/ocr: state

\* Authorization header: missing or not a Bearer one, a token the auth
\* provider rejects, a token it accepts
Tokens == {"none", "invalid", "valid"}
\* the upload: no image field, an image, a file multer rejects (not image/*,
\* or larger than 10MB)
Files == {"absent", "image", "rejected"}

IdleReq ==
  [pc |-> "idle", token |-> "none", userId |-> U1, file |-> "absent", buffer |-> 1,
   sub |-> NoSub, limitReached |-> FALSE, cacheKey |-> <<>>,
   status |-> 0, error |-> "", text |-> <<>>, cached |-> FALSE, servedFrom |-> <<>>,
   vision |-> 0, dupOf |-> <<>>, storedAt |-> 0,
   inc |-> "none", incCount |-> 0, incId |-> 0]

\* res.status(code).json(...): the request is over
Respond(rec, code, error, t) ==
  [rec EXCEPT !.pc = "done", !.status = code, !.error = error]

\* the catch block of the handler, lines 424-430; what was thrown is kept
\* for the record only, the client sees "Processing failed"
Caught(rec, thrown, t) == Respond(rec, 500, thrown, t)

\* what the vision API can answer
VisionContents ==
  { <<START_MARKER, " ", "hi", " ", END_MARKER>>,
    <<"yo">>,
    <<"ERROR:", "no messages">>,
    <<START_MARKER, " ", END_MARKER>>,
    <<>> }

VisionOutcomes ==
  {[kind |-> "throw", content |-> <<>>], [kind |-> "notok", content |-> <<>>]}
  \cup {[kind |-> "ok", content |-> c] : c \in VisionContents}

\* lines 225-245 with the cache test replaced: no lookup at all
AfterLimitOkNoCache(rec, cache, t) ==
  IF rec.file = "absent"
  THEN Respond(rec, 400, "No image provided", t)
  ELSE [rec EXCEPT !.pc = "vision",
                   !.cacheKey = generateCacheKey(rec.buffer, rec.userId)]

\* lines 225-254 with an increment launched by a cache hit as well
AfterLimitOkCountsHit(rec, cache, t) ==
  IF rec.file = "absent"
  THEN Respond(rec, 400, "No image provided", t)
  ELSE LET cacheKey == generateCacheKey(rec.buffer, rec.userId)
           i == CacheIndex(cache, cacheKey)
       IN IF i # 0 /\ CacheFresh(cache[i], t)
          THEN [Respond(rec, 200, "", t) EXCEPT
                  !.cacheKey = cacheKey, !.text = cache[i].text,
                  !.cached = TRUE, !.servedFrom = cache[i].owner,
                  !.inc = "select"]
          ELSE [rec EXCEPT !.pc = "vision", !.cacheKey = cacheKey]

\* lines 225-254: the synchronous part that follows a passed usage-limit
\* check: file test, cache lookup, and the start of the vision call
AfterLimitOk(rec, cache, t) ==
  IF rec.file = "absent"
  THEN Respond(rec, 400, "No image provided", t)
  ELSE LET cacheKey == generateCacheKey(rec.buffer, rec.userId)
           i == CacheIndex(cache, cacheKey)
       IN IF i # 0 /\ CacheFresh(cache[i], t)
          THEN [Respond(rec, 200, "", t) EXCEPT
                  !.cacheKey = cacheKey, !.text = cache[i].text,
                  !.cached = TRUE, !.servedFrom = cache[i].owner]
          ELSE [rec EXCEPT !.pc = "vision", !.cacheKey = cacheKey]

\* lines 211-223 with the message built without reading the subscription
LimitMessageUnguarded(rec, count, t) ==
  Respond(rec, 403, "Usage limit reached", t)

\* lines 215-222: building the message dereferences the subscription read at
\* line 212; a null there throws and the catch block answers 500
LimitMessage(rec, count, t) ==
  IF rec.sub.found
  THEN Respond(rec, 403, "Usage limit reached", t)
  ELSE Caught(rec, "TypeError", t)

\* a limit check that lets every request through
AfterUsageNoQuota(rec, count, cache, t) ==
  AfterLimitOk([rec EXCEPT !.limitReached = FALSE], cache, t)

\* lines 249-251 of hasReachedUsageLimit and lines 211-225 of the handler
AfterUsage(rec, count, cache, t) ==
  IF LimitExceeded(count, rec.sub.monthly_limit)
  THEN [rec EXCEPT !.limitReached = TRUE, !.pc = "msg_sub"]
  ELSE AfterLimitOk([rec EXCEPT !.limitReached = FALSE], cache, t)

SetReq(r, rec) == req' = [req EXCEPT ![r] = rec]

\* ---------------------------------------------------- POST /api/ocr: actions

authenticateUserLax(rec, threw, t) ==
  IF rec.token = "none"
  THEN Respond(rec, 401, "No token provided", t)
  ELSE [rec EXCEPT !.pc = "upload"]

\* middleware/auth.js: no Bearer header, a token the auth provider rejects, or
\* a lookup that throws all answer 401; otherwise the next middleware runs
authenticateUser(rec, threw, t) ==
  IF rec.token = "none"
  THEN Respond(rec, 401, "No token provided", t)
  ELSE IF threw
  THEN Respond(rec, 401, "Authentication failed", t)
  ELSE IF rec.token = "invalid"
  THEN Respond(rec, 401, "Invalid or expired token", t)
  ELSE [rec EXCEPT !.pc = "upload"]

\* the text a finished cache-miss request of the same user with the same
\* bytes was answered with less than CACHE_TTL ago, <<>> when there is none
FirstAnswer(u, buffer, t) ==
  LET firsts == {q \in Reqs : /\ req[q].pc = "done" /\ req[q].status = 200
                              /\ ~req[q].cached /\ req[q].token = "valid"
                              /\ req[q].userId = u /\ req[q].buffer = buffer
                              /\ t - req[q].storedAt < CACHE_TTL}
  IN IF firsts = {} THEN <<>> ELSE req[CHOOSE q \in firsts : TRUE].text

\* a client sends a request and the auth middleware looks the token up
Arrive(r) ==
  /\ req[r].pc = "idle"
  /\ \A q \in Reqs : q < r => req[q].pc # "idle"
  /\ \E token \in Tokens, u \in Users, file \in Files, buffer \in Images,
        threw \in BOOLEAN :
       /\ token # "valid" => (u = U1 /\ file = "image" /\ buffer = 1)
       /\ file # "image" => buffer = 1
       /\ SetReq(r, authenticateUser(
                      [IdleReq EXCEPT !.token = token, !.userId = u,
                                      !.file = file, !.buffer = buffer,
                                      !.dupOf = IF token = "valid" /\ file = "image"
                                                THEN FirstAnswer(u, buffer, now)
                                                ELSE <<>>],
                      threw, now))
  /\ UNCHANGED <<now, ticks, currentMonth, rateLimitMap, analysisCache, inserted,
                 subscriptions, usage_tracking, cancel, events, log,
                 endpoints, subscriptionRows, createReq>>

\* the handler with the subscription check left out
UploadThenLimit(r) ==
  /\ req[r].pc = "upload"
  /\ IF req[r].file = "rejected"
     THEN /\ SetReq(r, Respond(req[r], 500, "upload rejected", now))
          /\ UNCHANGED rateLimitMap
     ELSE LET res == checkRateLimit(rateLimitMap, req[r].userId, now)
          IN /\ rateLimitMap' = res.map
             /\ IF res.ok
                THEN SetReq(r, [req[r] EXCEPT !.pc = "limit_sub"])
                ELSE SetReq(r, Respond(req[r], 429, "Rate limit exceeded", now))
  /\ UNCHANGED <<now, ticks, currentMonth, analysisCache, inserted,
                 subscriptions, usage_tracking, cancel, events, log,
                 endpoints, subscriptionRows, createReq>>

\* upload.single('image'), then the handler up to its first await
Upload(r) ==
  /\ req[r].pc = "upload"
  /\ IF req[r].file = "rejected"
     THEN /\ SetReq(r, Respond(req[r], 500, "upload rejected", now))
          /\ UNCHANGED rateLimitMap
     ELSE LET res == checkRateLimit(rateLimitMap, req[r].userId, now)
          IN /\ rateLimitMap' = res.map
             /\ IF res.ok
                THEN SetReq(r, [req[r] EXCEPT !.pc = "sub"])
                ELSE SetReq(r, Respond(req[r], 429, "Rate limit exceeded", now))
  /\ UNCHANGED <<now, ticks, currentMonth, analysisCache, inserted,
                 subscriptions, usage_tracking, cancel, events, log,
                 endpoints, subscriptionRows, createReq>>

isUserSubscribedNoExpiry(subs, userId, t) ==
  getUserSubscription(subs, userId).found

\* lib/supabase.js isUserSubscribed
isUserSubscribed(subs, userId, t) ==
  LET subscription == getUserSubscription(subs, userId)
  IN subscription.found /\ NotExpired(subscription, t)

\* lines 200-207
SubCheck(r) ==
  /\ req[r].pc = "sub"
  /\ \E ok \in BOOLEAN :
       IF ~ok THEN SetReq(r, Caught(req[r], "store error", now))
       ELSE IF isUserSubscribed(subscriptions, req[r].userId, now)
       THEN SetReq(r, [req[r] EXCEPT !.pc = "limit_sub"])
       ELSE SetReq(r, Respond(req[r], 403, "Subscription required", now))
  /\ UNCHANGED <<now, ticks, currentMonth, rateLimitMap, analysisCache, inserted,
                 subscriptions, usage_tracking, cancel, events, log,
                 endpoints, subscriptionRows, createReq>>

\* hasReachedUsageLimit, lines 242-247
LimitSub(r) ==
  /\ req[r].pc = "limit_sub"
  /\ \E ok \in BOOLEAN :
       LET subscription == getUserSubscription(subscriptions, req[r].userId)
           rec == [req[r] EXCEPT !.sub = subscription]
       IN IF ~ok THEN SetReq(r, Caught(req[r], "store error", now))
          ELSE IF ~subscription.found
          THEN SetReq(r, [rec EXCEPT !.limitReached = TRUE, !.pc = "msg_sub"])
          ELSE IF subscription.monthly_limit = UNLIMITED
          THEN SetReq(r, AfterLimitOk([rec EXCEPT !.limitReached = FALSE],
                                      analysisCache, now))
          ELSE SetReq(r, [rec EXCEPT !.pc = "limit_usage"])
  /\ UNCHANGED <<now, ticks, currentMonth, rateLimitMap, analysisCache, inserted,
                 subscriptions, usage_tracking, cancel, events, log,
                 endpoints, subscriptionRows, createReq>>

\* line 212
MsgSub(r) ==
  /\ req[r].pc = "msg_sub"
  /\ \E ok \in BOOLEAN :
       IF ~ok THEN SetReq(r, Caught(req[r], "store error", now))
       ELSE SetReq(r, [req[r] EXCEPT
                         !.sub = getUserSubscription(subscriptions, req[r].userId),
                         !.pc = "msg_usage"])
  /\ UNCHANGED <<now, ticks, currentMonth, rateLimitMap, analysisCache, inserted,
                 subscriptions, usage_tracking, cancel, events, log,
                 endpoints, subscriptionRows, createReq>>

\* what the caller does with the usage row getUserUsage returns: line 250 of
\* hasReachedUsageLimit, or lines 215-222 of the handler
UsageReturned(rec, count, cache, t) ==
  IF rec.pc \in {"limit_usage", "limit_usage_ins"}
  THEN AfterUsage(rec, count, cache, t)
  ELSE LimitMessage(rec, count, t)

\* getUserUsage, lines 113-118 and 136-137: the select, called from
\* hasReachedUsageLimit (line 249) or from the handler (line 213)
UsageSelect(r) ==
  /\ req[r].pc \in {"limit_usage", "msg_usage"}
  /\ \E ok \in BOOLEAN :
       LET usage == UsageSingle(usage_tracking, req[r].userId, currentMonth)
       IN IF ~ok THEN SetReq(r, Caught(req[r], "store error", now))
          ELSE IF usage.id = 0
          THEN SetReq(r, [req[r] EXCEPT !.pc = IF @ = "limit_usage"
                                               THEN "limit_usage_ins"
                                               ELSE "msg_usage_ins"])
          ELSE SetReq(r, UsageReturned(req[r], usage.analyses_count, analysisCache, now))
  /\ UNCHANGED <<now, ticks, currentMonth, rateLimitMap, analysisCache, inserted,
                 subscriptions, usage_tracking, cancel, events, log,
                 endpoints, subscriptionRows, createReq>>

\* getUserUsage, lines 121-134: the insert of a row with count 0
UsageCreate(r) ==
  /\ req[r].pc \in {"limit_usage_ins", "msg_usage_ins"}
  /\ \E ok \in BOOLEAN :
       IF ~ok
       THEN /\ SetReq(r, Caught(req[r], "store error", now))
            /\ UNCHANGED usage_tracking
       ELSE /\ usage_tracking' = UsageInsert(usage_tracking, req[r].userId, currentMonth)
            /\ SetReq(r, UsageReturned(req[r], 0, analysisCache, now))
  /\ UNCHANGED <<now, ticks, currentMonth, rateLimitMap, analysisCache, inserted,
                 subscriptions, cancel, events, log,
                 endpoints, subscriptionRows, createReq>>

\* lines 254-422: the vision call answers, the text is extracted and checked,
\* the result is cached, the usage increment is started and the response sent
Vision(r) ==
  /\ req[r].pc = "vision"
  /\ \E out \in VisionOutcomes :
       LET rec == [req[r] EXCEPT !.vision = @ + 1]
           responseContent == Trim(out.content)
           extractedText == ExtractMarked(responseContent)
       IN IF out.kind = "throw"
          THEN /\ SetReq(r, Caught(rec, "fetch error", now))
               /\ UNCHANGED <<analysisCache, inserted>>
          ELSE IF out.kind = "notok"
          THEN /\ SetReq(r, Respond(rec, 500, "Vision API failed", now))
               /\ UNCHANGED <<analysisCache, inserted>>
          ELSE IF out.content = <<>>
          THEN /\ SetReq(r, Respond(rec, 500, "No response from Vision API", now))
               /\ UNCHANGED <<analysisCache, inserted>>
          ELSE IF IsNotConversation(responseContent)
          THEN /\ SetReq(r, Respond(rec, 400, "Invalid image", now))
               /\ UNCHANGED <<analysisCache, inserted>>
          ELSE IF ~HasContent(extractedText) \/ IsErrorMessage(extractedText)
          THEN /\ SetReq(r, Respond(rec, 400, "No messages found", now))
               /\ UNCHANGED <<analysisCache, inserted>>
          ELSE /\ analysisCache' =
                    CacheCleanup(CacheSet(analysisCache, rec.cacheKey, extractedText,
                                          now, rec.userId, inserted + 1))
               /\ inserted' = IF CacheIndex(analysisCache, rec.cacheKey) = 0
                              THEN inserted + 1 ELSE inserted
               /\ SetReq(r, [Respond(rec, 200, "", now) EXCEPT
                               !.text = extractedText, !.storedAt = now,
                               !.inc = "select"])
  /\ UNCHANGED <<now, ticks, currentMonth, rateLimitMap,
                 subscriptions, usage_tracking, cancel, events, log,
                 endpoints, subscriptionRows, createReq>>

\* an increment whose failure reaches the response
IncSelectSurfacing(r) ==
  /\ req[r].inc = "select"
  /\ \E ok \in BOOLEAN :
       LET usage == UsageSingle(usage_tracking, req[r].userId, currentMonth)
       IN IF ~ok THEN SetReq(r, [req[r] EXCEPT !.inc = "failed", !.status = 500])
          ELSE IF usage.id = 0
          THEN SetReq(r, [req[r] EXCEPT !.inc = "insert"])
          ELSE SetReq(r, [req[r] EXCEPT !.inc = "update", !.incId = usage.id,
                                        !.incCount = usage.analyses_count])
  /\ UNCHANGED <<now, ticks, currentMonth, rateLimitMap, analysisCache, inserted,
                 subscriptions, usage_tracking, cancel, events, log,
                 endpoints, subscriptionRows, createReq>>

\* incrementUsage, line 144: the select of getUserUsage
IncSelect(r) ==
  /\ req[r].inc = "select"
  /\ \E ok \in BOOLEAN :
       LET usage == UsageSingle(usage_tracking, req[r].userId, currentMonth)
       IN IF ~ok THEN SetReq(r, [req[r] EXCEPT !.inc = "failed"])
          ELSE IF usage.id = 0
          THEN SetReq(r, [req[r] EXCEPT !.inc = "insert"])
          ELSE SetReq(r, [req[r] EXCEPT !.inc = "update", !.incId = usage.id,
                                        !.incCount = usage.analyses_count])
  /\ UNCHANGED <<now, ticks, currentMonth, rateLimitMap, analysisCache, inserted,
                 subscriptions, usage_tracking, cancel, events, log,
                 endpoints, subscriptionRows, createReq>>

\* incrementUsage, line 144: the insert of getUserUsage
IncInsert(r) ==
  /\ req[r].inc = "insert"
  /\ \E ok \in BOOLEAN :
       IF ~ok
       THEN /\ SetReq(r, [req[r] EXCEPT !.inc = "failed"])
            /\ UNCHANGED usage_tracking
       ELSE /\ usage_tracking' = UsageInsert(usage_tracking, req[r].userId, currentMonth)
            /\ SetReq(r, [req[r] EXCEPT !.inc = "update",
                                        !.incId = Len(usage_tracking) + 1,
                                        !.incCount = 0])
  /\ UNCHANGED <<now, ticks, currentMonth, rateLimitMap, analysisCache, inserted,
                 subscriptions, cancel, events, log,
                 endpoints, subscriptionRows, createReq>>

UsageUpdateSame(table, id, count) == table

\* incrementUsage, lines 146-154
UsageUpdate(table, id, count) ==
  [table EXCEPT ![id] = [@ EXCEPT !.analyses_count = count + 1]]

IncUpdate(r) ==
  /\ req[r].inc = "update"
  /\ \E ok \in BOOLEAN :
       IF ~ok
       THEN /\ SetReq(r, [req[r] EXCEPT !.inc = "failed"])
            /\ UNCHANGED <<usage_tracking, usageLog, subscriptionRows, createReq>>
       ELSE /\ usage_tracking' = UsageUpdate(usage_tracking, req[r].incId, req[r].incCount)
            /\ SetReq(r, [req[r] EXCEPT !.inc = "done"])
            /\ usageLog' = [usageLog EXCEPT ![req[r].userId].completed = @ + 1]
  /\ UNCHANGED <<now, ticks, currentMonth, rateLimitMap, analysisCache, inserted,
                 subscriptions, cancel, events, rateLog,
                 endpoints, subscriptionRows, createReq>>


\* ------------------------------------------------------------------- clock

\* the instants looked at: just before and exactly at each multiple of the
\* TTL (which is also the rate-limit window)
TickStep(n) == IF n % 2 = 0 THEN CACHE_TTL - 1 ELSE 1

\* time passes
Tick ==
  /\ ticks < MaxTicks
  /\ now' = now + TickStep(ticks)
  /\ ticks' = ticks + 1
  /\ UNCHANGED <<currentMonth, rateLimitMap, analysisCache, inserted,
                 subscriptions, usage_tracking, req, cancel, events, log,
                 endpoints, subscriptionRows, createReq>>

\* an update that is not restricted to the rows of the subscription
SetStatusOfEveryRow(subs, subscriptionId, status) ==
  [u \in Users |->
     IF subs[u].found THEN [subs[u] EXCEPT !.status = status] ELSE subs[u]]

\* ------------------------------------------------- subscription changes

\* .update({status}).eq('paypal_subscription_id', subscriptionId)
SetStatusByPaypalId(subs, subscriptionId, status) ==
  [u \in Users |->
     IF subs[u].found /\ subs[u].paypal_subscription_id = subscriptionId
     THEN [subs[u] EXCEPT !.status = status]
     ELSE subs[u]]

\* webhooks/paypal.js: handleSubscriptionCancelled / Suspended / Expired;
\* a failed update is logged and changes nothing
WebhookStatus ==
  /\ events < MaxEvents
  /\ events' = events + 1
  /\ \E subscriptionId \in {PaypalId(u) : u \in Users},
        status \in {"cancelled", "suspended", "expired"}, ok \in BOOLEAN :
       subscriptions' = IF ok
                        THEN SetStatusByPaypalId(subscriptions, subscriptionId, status)
                        ELSE subscriptions
  /\ UNCHANGED <<now, ticks, currentMonth, rateLimitMap, analysisCache, inserted,
                 usage_tracking, req, cancel, log,
                 endpoints, subscriptionRows, createReq>>


IdleCancel == [pc |-> "idle", userId |-> U1, status |-> 0]

\* api/subscriptions/cancel.js: a signed-in user asks to cancel
CancelArrive ==
  /\ cancel.pc = "idle"
  /\ events < MaxEvents
  /\ events' = events + 1
  /\ \E u \in Users : cancel' = [IdleCancel EXCEPT !.pc = "read", !.userId = u]
  /\ UNCHANGED <<now, ticks, currentMonth, rateLimitMap, analysisCache, inserted,
                 subscriptions, usage_tracking, req, log,
                 endpoints, subscriptionRows, createReq>>

\* cancel.js lines 10-24
CancelRead ==
  /\ cancel.pc = "read"
  /\ \E ok \in BOOLEAN :
       LET subscription == getUserSubscription(subscriptions, cancel.userId)
       IN IF ~ok THEN cancel' = [cancel EXCEPT !.pc = "done", !.status = 500]
          ELSE IF ~subscription.found
          THEN cancel' = [cancel EXCEPT !.pc = "done", !.status = 404]
          ELSE IF subscription.paypal_subscription_id = ""
          THEN cancel' = [cancel EXCEPT !.pc = "done", !.status = 400]
          ELSE cancel' = [cancel EXCEPT !.pc = "paypal"]
  /\ UNCHANGED <<now, ticks, currentMonth, rateLimitMap, analysisCache, inserted,
                 subscriptions, usage_tracking, req, events, log,
                 endpoints, subscriptionRows, createReq>>

\* cancel.js lines 26-30: the provider cancels, or the call throws
CancelPaypal ==
  /\ cancel.pc = "paypal"
  /\ \E ok \in BOOLEAN :
       cancel' = IF ok THEN [cancel EXCEPT !.pc = "update"]
                 ELSE [cancel EXCEPT !.pc = "done", !.status = 500]
  /\ UNCHANGED <<now, ticks, currentMonth, rateLimitMap, analysisCache, inserted,
                 subscriptions, usage_tracking, req, events, log,
                 endpoints, subscriptionRows, createReq>>

\* lib/supabase.js cancelUserSubscription: update by user_id
cancelUserSubscription(subs, userId) ==
  IF subs[userId].found
  THEN [subs EXCEPT ![userId] = [@ EXCEPT !.status = "cancelled"]]
  ELSE subs

\* cancel.js lines 32-38
CancelUpdate ==
  /\ cancel.pc = "update"
  /\ \E ok \in BOOLEAN :
       IF ok /\ subscriptions[cancel.userId].found
       THEN /\ subscriptions' = cancelUserSubscription(subscriptions, cancel.userId)
            /\ cancel' = [cancel EXCEPT !.pc = "done", !.status = 200]
       ELSE /\ UNCHANGED subscriptions
            /\ cancel' = [cancel EXCEPT !.pc = "done", !.status = 500]
  /\ UNCHANGED <<now, ticks, currentMonth, rateLimitMap, analysisCache, inserted,
                 usage_tracking, req, events, log,
                 endpoints, subscriptionRows, createReq>>

\* ------------------------------------------------- the other endpoints: state

\* no vision answer is being parsed
IdleParse ==
  [pc |-> "idle", content |-> <<>>, responseContent |-> <<>>,
   extractedText |-> <<>>, rejected |-> FALSE]

\* no webhook request is in flight
IdleHook ==
  [pc |-> "idle", event |-> [type |-> "", hasResource |-> FALSE, id |-> "",
                             plan_id |-> "", next_billing_time |-> NULL_TIME],
   verify |-> FALSE, isValid |-> "", parsed |-> FALSE, userId |-> <<>>,
   failed |-> FALSE, before |-> <<>>, status |-> 0, body |-> ""]

\* no status request is in flight
\* a number of analyses in a response, and the text 'unlimited'
Amount(n) == [unlimited |-> FALSE, n |-> n]
Unlimited == [unlimited |-> TRUE, n |-> 0]

IdleStatus ==
  [pc |-> "idle", token |-> "none", userId |-> U1, sub |-> NoSub, failed |-> FALSE,
   status |-> 0, hasSubscription |-> FALSE, subscription |-> NoSub,
   current |-> 0, limit |-> Amount(0), remaining |-> Amount(0)]

\* no analyze request is in flight
\* req.body.messages when the field is absent
Undefined == [kind |-> "undefined", items |-> <<>>]

IdleAnalyze ==
  [pc |-> "idle", messages |-> Undefined, prompt |-> <<>>,
   status |-> 0, error |-> "", llm |-> 0]

\* the create-subscription request: body {subscriptionId, tier}, and the
\* locals paypalSubscription.plan_id and expiresAt
IdleCreate ==
  [pc |-> "idle", userId |-> U1, subscriptionId |-> "", tier |-> "",
   plan_id |-> "", expiresAt |-> NULL_TIME, status |-> 0, error |-> ""]

\* ------------------------------------------------------------ initial state

\* subscription rows a user can have when the requests start
SubOptions(u) ==
  { NoSub,
    SubRow("active", "basic", FAR_FUTURE, PaypalId(u)),
    SubRow("active", "premium", FAR_FUTURE, PaypalId(u)),
    SubRow("active", "basic", CACHE_TTL, PaypalId(u)),
    SubRow("cancelled", "pro", FAR_FUTURE, PaypalId(u)),
    SubRow("active", "pro", NULL_TIME, PaypalId(u)) }

\* usage rows of the current month when the requests start
UsageOptions ==
  { <<>> } \cup
  { <<[user_id |-> U1, month |-> 1, analyses_count |-> c]>> :
      c \in {BASIC_LIMIT - 1, BASIC_LIMIT} }

\* n requests accepted at time 0
Accepted(n) == [i \in 1..n |-> 0]

InitCommon ==
  /\ now = 0
  /\ ticks = 0
  /\ currentMonth = 1
  /\ req = [r \in Reqs |-> IdleReq]
  /\ cancel = IdleCancel
  /\ events = 0
  /\ rateLog = [u \in Users |-> <<>>]
  /\ usageLog = [u \in Users |-> [calls |-> 0, completed |-> 0, overlap |-> FALSE]]
  /\ parsed = IdleParse
  /\ hook = IdleHook
  /\ deliveries = <<>>
  /\ statusReq = IdleStatus
  /\ analyzeReq = IdleAnalyze
  /\ subscriptionRows = <<>>
  /\ createReq = IdleCreate

EmptyCache == analysisCache = <<>> /\ inserted = 0

Init ==
  /\ InitCommon
  /\ EmptyCache
  /\ rateLimitMap \in {[u \in Users |-> IF u = U1 THEN Accepted(n) ELSE <<>>] :
                         n \in {0, RATE_LIMIT_MAX - 1}}
  /\ subscriptions \in
       {[u \in Users |-> IF u = U1 THEN s1 ELSE s2] :
          s1 \in SubOptions(U1),
          s2 \in {NoSub, SubRow("active", "premium", FAR_FUTURE, PaypalId(U2))}}
  /\ usage_tracking \in UsageOptions

\* one step of the OCR request r
OcrStep(r) ==
  \/ Arrive(r) \/ Upload(r) \/ SubCheck(r)
  \/ LimitSub(r) \/ MsgSub(r) \/ UsageSelect(r) \/ UsageCreate(r)
  \/ Vision(r)
  \/ IncSelect(r) \/ IncInsert(r) \/ IncUpdate(r)

\* concurrent OCR requests
Next == \E r \in Reqs : OcrStep(r)

Spec == Init /\ [][Next]_vars

\* concurrent OCR requests while time passes
InitTime ==
  /\ InitCommon
  /\ EmptyCache
  /\ rateLimitMap = [u \in Users |-> <<>>]
  /\ subscriptions \in
       {[u \in Users |-> IF u = U1 THEN s1
                         ELSE SubRow("active", "basic", FAR_FUTURE, PaypalId(U2))] :
          s1 \in {SubRow("active", "basic", FAR_FUTURE, PaypalId(U1)),
                  SubRow("active", "premium", CACHE_TTL, PaypalId(U1))}}
  /\ usage_tracking = <<[user_id |-> U1, month |-> 1,
                         analyses_count |-> BASIC_LIMIT - 1]>>

NextTime == (\E r \in Reqs : OcrStep(r)) \/ Tick

SpecTime == InitTime /\ [][NextTime]_vars

\* concurrent OCR requests of identities close to the rate limit, while
\* time passes
InitSlots ==
  /\ InitCommon
  /\ EmptyCache
  /\ rateLimitMap = [u \in Users |-> Accepted(RATE_LIMIT_MAX - 1)]
  /\ subscriptions =
       [u \in Users |-> IF u = U1
                        THEN SubRow("active", "basic", FAR_FUTURE, PaypalId(U1))
                        ELSE NoSub]
  /\ usage_tracking \in
       {<<>>, <<[user_id |-> U1, month |-> 1, analyses_count |-> BASIC_LIMIT]>>}

SpecSlots == InitSlots /\ [][NextTime]_vars

\* concurrent OCR requests of identities with a finite limit, one of them
\* one analysis below it
InitQuota ==
  /\ InitCommon
  /\ EmptyCache
  /\ rateLimitMap = [u \in Users |-> <<>>]
  /\ subscriptions =
       [u \in Users |-> SubRow("active", "basic", FAR_FUTURE, PaypalId(u))]
  /\ usage_tracking = <<[user_id |-> U1, month |-> 1,
                         analyses_count |-> BASIC_LIMIT - 1]>>

SpecQuota == InitQuota /\ [][Next]_vars

\* one OCR request while subscriptions change
InitEvents ==
  /\ InitCommon
  /\ EmptyCache
  /\ rateLimitMap = [u \in Users |-> <<>>]
  /\ subscriptions \in
       {[u \in Users |-> IF u = U1 THEN s1
                         ELSE SubRow("active", "premium", FAR_FUTURE, PaypalId(U2))] :
          s1 \in {SubRow("active", "basic", FAR_FUTURE, PaypalId(U1)),
                  SubRow("active", "premium", FAR_FUTURE, PaypalId(U1))}}
  /\ usage_tracking \in UsageOptions

NextEvents ==
  \/ OcrStep(1)
  \/ WebhookStatus
  \/ CancelArrive \/ CancelRead \/ CancelPaypal \/ CancelUpdate

SpecEvents == InitEvents /\ [][NextEvents]_vars


\* ------------------------------------------------ the cache near its bound

\* n entries stored by earlier requests of U2, oldest first
Stored(n) ==
  [i \in 1..n |-> [key |-> generateCacheKey(100 + i, U2), text |-> <<"yo">>,
                   timestamp |-> 0, owner |-> U2, ord |-> i]]

InitCache ==
  /\ InitCommon
  /\ rateLimitMap = [u \in Users |-> <<>>]
  /\ subscriptions =
       [u \in Users |-> SubRow("active", IF u = U1 THEN "basic" ELSE "premium",
                               FAR_FUTURE, PaypalId(u))]
  /\ usage_tracking \in
       {<<>>, <<[user_id |-> U1, month |-> 1, analyses_count |-> BASIC_LIMIT]>>}
  /\ \E n \in {CACHE_MAX_SIZE - 1, CACHE_MAX_SIZE} :
       /\ analysisCache = Stored(n)
       /\ inserted = n

SpecCache == InitCache /\ [][Next]_vars

\* a full cache whose oldest entry was stored by U1 for image 1, while time
\* passes
InitOverwrite ==
  /\ InitCommon
  /\ rateLimitMap = [u \in Users |-> <<>>]
  /\ subscriptions =
       [u \in Users |-> IF u = U1
                        THEN SubRow("active", "basic", FAR_FUTURE, PaypalId(U1))
                        ELSE NoSub]
  /\ usage_tracking \in
       {<<>>, <<[user_id |-> U1, month |-> 1, analyses_count |-> BASIC_LIMIT]>>}
  /\ analysisCache =
       <<[key |-> generateCacheKey(1, U1), text |-> <<"yo">>, timestamp |-> 0,
          owner |-> U1, ord |-> 1]>>
       \o [i \in 1..(CACHE_MAX_SIZE - 1) |->
             [Stored(CACHE_MAX_SIZE - 1)[i] EXCEPT !.ord = i + 1]]
  /\ inserted = CACHE_MAX_SIZE

SpecOverwrite == InitOverwrite /\ [][NextTime]_vars

\* ------------------------------------------- checkRateLimit, called directly

\* somebody calls checkRateLimit(u)
RateCall(u) ==
  /\ Len(rateLog[U1]) + Len(rateLog[U2]) < MaxCalls
  /\ u = U2 => Len(rateLog[U2]) < MaxOtherCalls
  /\ LET res == checkRateLimit(rateLimitMap, u, now)
     IN /\ rateLimitMap' = res.map
        /\ rateLog' = [rateLog EXCEPT ![u] = Append(@, [t |-> now, ok |-> res.ok])]
  /\ UNCHANGED <<now, ticks, currentMonth, analysisCache, inserted,
                 subscriptions, usage_tracking, req, cancel, events, usageLog,
                 endpoints, subscriptionRows, createReq>>

InitRate ==
  /\ InitCommon
  /\ EmptyCache
  /\ rateLimitMap = [u \in Users |-> <<>>]
  /\ subscriptions = [u \in Users |-> NoSub]
  /\ usage_tracking = <<>>

NextRate == (\E u \in Users : RateCall(u)) \/ Tick

SpecRate == InitRate /\ [][NextRate]_vars

\* ------------------------------------------- incrementUsage, called directly

\* usage tasks of user u in flight
InFlight(u) == {q \in Reqs : req[q].userId = u /\ req[q].inc \in {"select", "insert", "update"}}

\* somebody calls incrementUsage(u); the call runs in slot r
CallIncrement(r) ==
  /\ req[r].pc = "idle"
  /\ req[r].inc \in {"none", "done", "failed"}
  /\ \E u \in Users :
       /\ usageLog[u].calls < MaxIncrements
       /\ u = U2 => usageLog[u].calls < MaxOtherCalls
       /\ usageLog' = [usageLog EXCEPT ![u] =
                         [@ EXCEPT !.calls = @ + 1,
                                   !.overlap = @ \/ InFlight(u) # {}]]
       /\ SetReq(r, [IdleReq EXCEPT !.userId = u, !.inc = "select"])
  /\ UNCHANGED <<now, ticks, currentMonth, rateLimitMap, analysisCache, inserted,
                 subscriptions, usage_tracking, cancel, events, rateLog,
                 endpoints, subscriptionRows, createReq>>

InitUsage ==
  /\ InitCommon
  /\ EmptyCache
  /\ rateLimitMap = [u \in Users |-> <<>>]
  /\ subscriptions = [u \in Users |-> NoSub]
  /\ usage_tracking = <<>>

NextUsage ==
  \E r \in Reqs : CallIncrement(r) \/ IncSelect(r) \/ IncInsert(r) \/ IncUpdate(r)

SpecUsage == InitUsage /\ [][NextUsage]_vars


\* --------------------------------------- the parsing of a vision answer

\* what a vision answer is made of: the two markers, white space, a message
\* and the error sentinel
ContentTokens == {START_MARKER, END_MARKER, " ", "hi", "ERROR:"}

\* the non-empty answers of at most MaxContentLen tokens
Contents == UNION {[1..n -> ContentTokens] : n \in 1..MaxContentLen}

\* lines 342-379: the answer is trimmed, tested for the sentinels and the
\* marked section is extracted
ParseAnswer ==
  /\ parsed.pc = "idle"
  /\ \E content \in Contents :
       LET responseContent == Trim(content)
           rejected == IsNotConversation(responseContent)
       IN parsed' = [pc |-> "done", content |-> content,
                     responseContent |-> responseContent,
                     rejected |-> rejected,
                     extractedText |-> IF rejected THEN <<>>
                                       ELSE ExtractMarked(responseContent)]
  /\ UNCHANGED <<now, ticks, currentMonth, rateLimitMap, analysisCache, inserted,
                 subscriptions, usage_tracking, req, cancel, events, log,
                 hook, deliveries, statusReq, analyzeReq, subscriptionRows, createReq>>

InitParse ==
  /\ InitCommon
  /\ EmptyCache
  /\ rateLimitMap = [u \in Users |-> <<>>]
  /\ subscriptions = [u \in Users |-> NoSub]
  /\ usage_tracking = <<>>

SpecParse == InitParse /\ [][ParseAnswer]_vars

\* ---------------------------------------------------- POST /api/analyze

\* what an element of a JSON array can be, with the text a template literal
\* makes of it
Elements ==
  {[type |-> "string", text |-> "hi"], [type |-> "string", text |-> ""],
   [type |-> "number", text |-> "42"], [type |-> "null", text |-> "null"]}

\* the values of req.body.messages: absent, a non-empty string, an object,
\* or an array of at most MaxMessages elements
MessageValues ==
  {Undefined, [kind |-> "string", items |-> <<>>], [kind |-> "object", items |-> <<>>]}
  \cup {[kind |-> "array", items |-> a] :
          a \in UNION {[1..n -> Elements] : n \in 0..MaxMessages}}

\* !messages: undefined is falsy; a non-empty string, an object and every
\* array are truthy
Falsy(messages) == messages.kind = "undefined"

IsArray(messages) == messages.kind = "array"

\* line 570: messages.map(msg => `"${msg}"`)
Quoted(messages) ==
  [i \in 1..Len(messages.items) |-> <<"\"", messages.items[i].text, "\"">>]

\* lines 471-491: validation, then the call of the LLM is started
AnalyzeArrive ==
  /\ analyzeReq.pc = "idle"
  /\ \E messages \in MessageValues :
       LET rec == [IdleAnalyze EXCEPT !.messages = messages]
       IN analyzeReq' =
            IF Falsy(messages) \/ ~IsArray(messages)
            THEN [rec EXCEPT !.pc = "done", !.status = 400, !.error = "Invalid input"]
            ELSE IF Len(messages.items) = 0
            THEN [rec EXCEPT !.pc = "done", !.status = 400, !.error = "No messages"]
            ELSE [rec EXCEPT !.pc = "fetch", !.llm = 1, !.prompt = Quoted(messages)]
  /\ UNCHANGED <<now, ticks, currentMonth, rateLimitMap, analysisCache, inserted,
                 subscriptions, usage_tracking, req, cancel, events, log,
                 parsed, hook, deliveries, statusReq, subscriptionRows, createReq>>

\* what the call of the LLM can end with
LlmOutcomes == {"throw", "notok", "no content", "ok"}

\* lines 580-607: the LLM answers, or the call throws
AnalyzeAnswer ==
  /\ analyzeReq.pc = "fetch"
  /\ \E out \in LlmOutcomes :
       analyzeReq' =
         IF out = "throw"
         THEN [analyzeReq EXCEPT !.pc = "done", !.status = 500, !.error = "Analysis failed"]
         ELSE IF out = "notok"
         THEN [analyzeReq EXCEPT !.pc = "done", !.status = 500, !.error = "Analysis failed"]
         ELSE IF out = "no content"
         THEN [analyzeReq EXCEPT !.pc = "done", !.status = 500,
                                 !.error = "No analysis result"]
         ELSE [analyzeReq EXCEPT !.pc = "done", !.status = 200]
  /\ UNCHANGED <<now, ticks, currentMonth, rateLimitMap, analysisCache, inserted,
                 subscriptions, usage_tracking, req, cancel, events, log,
                 parsed, hook, deliveries, statusReq, subscriptionRows, createReq>>

InitAnalyze ==
  /\ InitCommon
  /\ EmptyCache
  /\ rateLimitMap = [u \in Users |-> <<>>]
  /\ subscriptions = [u \in Users |-> NoSub]
  /\ usage_tracking = <<>>

NextAnalyze == AnalyzeArrive \/ AnalyzeAnswer

SpecAnalyze == InitAnalyze /\ [][NextAnalyze]_vars

\* -------------------------------------------- GET /api/subscription/status

\* an answer with status 500 where the handler answers with its default
StatusCaught500(rec) == [rec EXCEPT !.pc = "done", !.failed = TRUE, !.status = 500]

\* lines 169-180: the catch block answers (200) with the default body
StatusCaught(rec) ==
  [rec EXCEPT !.pc = "done", !.failed = TRUE, !.status = 200,
              !.hasSubscription = FALSE, !.subscription = NoSub,
              !.current = 0, !.limit = Amount(0), !.remaining = Amount(0)]

\* Math.max(0, n)
Max0(n) == IF n < 0 THEN 0 ELSE n

\* lines 133-168: the answer built from the subscription and the usage row
StatusAnswer(rec, count, t) ==
  IF ~rec.sub.found
  THEN [rec EXCEPT !.pc = "done", !.status = 200,
                   !.hasSubscription = FALSE, !.subscription = NoSub,
                   !.current = count, !.limit = Amount(0), !.remaining = Amount(0)]
  ELSE LET isActive == rec.sub.status = "active"
           notExpired == NotExpired(rec.sub, t)
           hasSubscription == isActive /\ notExpired
       IN [rec EXCEPT
             !.pc = "done", !.status = 200,
             !.hasSubscription = hasSubscription,
             !.subscription = IF hasSubscription THEN rec.sub ELSE NoSub,
             !.current = count,
             !.limit = IF rec.sub.monthly_limit = UNLIMITED THEN Unlimited
                       ELSE Amount(rec.sub.monthly_limit),
             !.remaining = IF rec.sub.monthly_limit = UNLIMITED THEN Unlimited
                           ELSE Amount(Max0(rec.sub.monthly_limit - count))]

\* a client asks for its status and the auth middleware looks the token up
StatusArrive ==
  /\ statusReq.pc = "idle"
  /\ \E token \in Tokens, u \in Users, threw \in BOOLEAN :
       LET rec == [IdleStatus EXCEPT !.token = token, !.userId = u]
       IN /\ token # "valid" => u = U1
          /\ statusReq' =
               IF token = "valid" /\ ~threw
               THEN [rec EXCEPT !.pc = "sub"]
               ELSE [rec EXCEPT !.pc = "done", !.status = 401]
  /\ UNCHANGED <<now, ticks, currentMonth, rateLimitMap, analysisCache, inserted,
                 subscriptions, usage_tracking, req, cancel, events, log,
                 parsed, hook, deliveries, analyzeReq, subscriptionRows, createReq>>

\* line 130
StatusSub ==
  /\ statusReq.pc = "sub"
  /\ \E ok \in BOOLEAN :
       statusReq' =
         IF ~ok THEN StatusCaught(statusReq)
         ELSE [statusReq EXCEPT
                 !.sub = getUserSubscription(subscriptions, statusReq.userId),
                 !.pc = "usage"]
  /\ UNCHANGED <<now, ticks, currentMonth, rateLimitMap, analysisCache, inserted,
                 subscriptions, usage_tracking, req, cancel, events, log,
                 parsed, hook, deliveries, analyzeReq, subscriptionRows, createReq>>

\* line 131: the select of getUserUsage
StatusUsage ==
  /\ statusReq.pc = "usage"
  /\ \E ok \in BOOLEAN :
       LET usage == UsageSingle(usage_tracking, statusReq.userId, currentMonth)
       IN statusReq' =
            IF ~ok THEN StatusCaught(statusReq)
            ELSE IF usage.id = 0 THEN [statusReq EXCEPT !.pc = "usage_ins"]
            ELSE StatusAnswer(statusReq, usage.analyses_count, now)
  /\ UNCHANGED <<now, ticks, currentMonth, rateLimitMap, analysisCache, inserted,
                 subscriptions, usage_tracking, req, cancel, events, log,
                 parsed, hook, deliveries, analyzeReq, subscriptionRows, createReq>>

\* line 131: the insert of getUserUsage
StatusUsageCreate ==
  /\ statusReq.pc = "usage_ins"
  /\ \E ok \in BOOLEAN :
       IF ~ok
       THEN /\ statusReq' = StatusCaught(statusReq)
            /\ UNCHANGED usage_tracking
       ELSE /\ usage_tracking' =
                 UsageInsert(usage_tracking, statusReq.userId, currentMonth)
            /\ statusReq' = StatusAnswer(statusReq, 0, now)
  /\ UNCHANGED <<now, ticks, currentMonth, rateLimitMap, analysisCache, inserted,
                 subscriptions, req, cancel, events, log,
                 parsed, hook, deliveries, analyzeReq, subscriptionRows, createReq>>

InitStatus ==
  /\ InitCommon
  /\ EmptyCache
  /\ rateLimitMap = [u \in Users |-> <<>>]
  /\ subscriptions \in
       {[u \in Users |-> IF u = U1 THEN s1 ELSE s2] :
          s1 \in SubOptions(U1),
          s2 \in {NoSub, SubRow("active", "premium", FAR_FUTURE, PaypalId(U2))}}
  /\ usage_tracking \in UsageOptions

NextStatus == StatusArrive \/ StatusSub \/ StatusUsage \/ StatusUsageCreate

SpecStatus == InitStatus /\ [][NextStatus]_vars

\* ------------------------------------------------- POST /api/webhooks/paypal

ACTIVATED == "BILLING.SUBSCRIPTION.ACTIVATED"
CANCELLED == "BILLING.SUBSCRIPTION.CANCELLED"
SUSPENDED == "BILLING.SUBSCRIPTION.SUSPENDED"
EXPIRED == "BILLING.SUBSCRIPTION.EXPIRED"
PAYMENT_FAILED == "BILLING.SUBSCRIPTION.PAYMENT.FAILED"
RENEWED == "BILLING.SUBSCRIPTION.RENEWED"
SALE_COMPLETED == "PAYMENT.SALE.COMPLETED"

\* event types whose handler asks the provider for the subscription
DetailTypes == {ACTIVATED, RENEWED, SALE_COMPLETED}

\* the status each status event writes
StatusOf(type) == IF type = CANCELLED THEN "cancelled"
                  ELSE IF type = SUSPENDED THEN "suspended" ELSE "expired"

\* an event, with what the provider reports for its subscription: resource.id
\* ("" when the event has no resource), plan_id and
\* billing_info.next_billing_time (NULL_TIME when absent)
Event(type, hasResource, id, plan_id, next) ==
  [type |-> type, hasResource |-> hasResource, id |-> id,
   plan_id |-> plan_id, next_billing_time |-> next]

HookEvents ==
  {Event(type, TRUE, id, plan_id, next) :
     type \in DetailTypes, id \in {"I-1", "I-9"}, plan_id \in {"P-pro", "P-x"},
     next \in {NULL_TIME, FAR_FUTURE}}
  \cup {Event(type, TRUE, id, "P-pro", NULL_TIME) :
          type \in {CANCELLED, SUSPENDED, EXPIRED, PAYMENT_FAILED, "OTHER"},
          id \in {"I-1", "I-9"}}
  \cup {Event(type, FALSE, "", "P-pro", NULL_TIME) :
          type \in DetailTypes \cup {CANCELLED, SUSPENDED, EXPIRED, PAYMENT_FAILED, "OTHER"}}

\* webhooks/paypal.js getTierFromPlanId
getTierFromPlanId(planId) ==
  IF planId = PlanIdOf("basic") THEN "basic"
  ELSE IF planId = PlanIdOf("pro") THEN "pro"
  ELSE IF planId = PlanIdOf("premium") THEN "premium"
  ELSE "basic"

\* lib/supabase.js upsertSubscription: insert, or on a conflict on user_id
\* update the columns given; an undefined expiresAt is no column of the
\* request, so an existing row keeps its expires_at and a new row gets null
upsertSubscription(subs, userId, data) ==
  [subs EXCEPT ![userId] =
     [found |-> TRUE, status |-> data.status, tier |-> data.tier,
      monthly_limit |-> data.monthlyLimit,
      paypal_subscription_id |-> data.paypalSubscriptionId,
      paypal_plan_id |-> data.paypalPlanId,
      expires_at |-> IF data.expiresAt # NULL_TIME THEN data.expiresAt
                     ELSE IF @.found THEN @.expires_at ELSE NULL_TIME]]

\* a renewal that adds a period to the stored expiry date
RenewByPaypalIdExtend(subs, subscriptionId, next) ==
  [u \in Users |->
     IF subs[u].found /\ subs[u].paypal_subscription_id = subscriptionId
     THEN [subs[u] EXCEPT !.status = "active",
                          !.expires_at = IF @ = NULL_TIME THEN CACHE_TTL
                                         ELSE @ + CACHE_TTL]
     ELSE subs[u]]

\* handleSubscriptionRenewed, lines 154-161: the update by
\* paypal_subscription_id; an undefined next_billing_time is no column of
\* the request
RenewByPaypalId(subs, subscriptionId, next) ==
  [u \in Users |->
     IF subs[u].found /\ subs[u].paypal_subscription_id = subscriptionId
     THEN [subs[u] EXCEPT !.status = "active",
                          !.expires_at = IF next # NULL_TIME THEN next ELSE @]
     ELSE subs[u]]

\* lines 72-76: .select('user_id').eq('paypal_subscription_id', id).single()
SelectUserByPaypalId(subs, subscriptionId) ==
  LET found == {u \in Users : /\ subs[u].found
                              /\ subs[u].paypal_subscription_id = subscriptionId}
  IN IF Cardinality(found) = 1 THEN CHOOSE u \in found : TRUE ELSE <<>>

\* line 54
HookReceived(rec) == [rec EXCEPT !.pc = "done", !.status = 200, !.body = "received"]

\* lines 56-60: the catch block of the endpoint
HookCaught(rec) ==
  [rec EXCEPT !.pc = "done", !.status = 200, !.body = "error", !.failed = TRUE]

\* lines 18-51, up to the first awaited call of the handler of the event
Dispatch(rec) ==
  LET parsedRec == [rec EXCEPT !.parsed = TRUE]
      type == rec.event.type
  IN IF type = ACTIVATED
     THEN IF rec.event.hasResource
          THEN [parsedRec EXCEPT !.pc = "details"]
          ELSE HookCaught(parsedRec)
     ELSE IF type \in {CANCELLED, SUSPENDED, EXPIRED}
     THEN [parsedRec EXCEPT !.pc = "update"]
     ELSE IF type \in {RENEWED, SALE_COMPLETED}
     THEN [parsedRec EXCEPT !.pc = "details"]
     ELSE HookReceived(parsedRec)

\* the webhook request moves to rec, the store to subs; an answered request
\* is added to the deliveries
HookStep(rec, subs) ==
  /\ hook' = rec
  /\ subscriptions' = subs
  /\ deliveries' =
       IF rec.pc = "done"
       THEN Append(deliveries, [event |-> rec.event, ok |-> rec.parsed /\ ~rec.failed,
                                before |-> IF hook.pc \in {"idle", "done"}
                                           THEN subscriptions
                                           ELSE hook.before,
                                after |-> subs])
       ELSE deliveries

\* the provider delivers an event, or delivers again the one it delivered;
\* verify tells whether PAYPAL_WEBHOOK_ID is set
HookArrive ==
  /\ hook.pc \in {"idle", "done"}
  /\ Len(deliveries) < MaxDeliveries
  /\ \E event \in HookEvents, verify \in BOOLEAN :
       LET rec == [IdleHook EXCEPT !.event = event, !.verify = verify,
                                   !.before = subscriptions]
       IN /\ deliveries # <<>> =>
               (event = deliveries[1].event /\ verify = hook.verify)
          /\ HookStep(IF verify THEN [rec EXCEPT !.pc = "verify"] ELSE Dispatch(rec),
                      subscriptions)
  /\ UNCHANGED <<now, ticks, currentMonth, rateLimitMap, analysisCache, inserted,
                 usage_tracking, req, cancel, events, log,
                 parsed, statusReq, analyzeReq, subscriptionRows, createReq>>

\* an invalid signature that is logged without ending the request
AfterVerifyLogOnly(rec, out) ==
  LET verified == [rec EXCEPT !.isValid = out]
  IN IF out = "throw" THEN HookCaught(verified) ELSE Dispatch(verified)

\* lines 11-16, from the answer of verifyWebhookSignature on: out is what
\* the call reported
AfterVerify(rec, out) ==
  LET verified == [rec EXCEPT !.isValid = out]
  IN IF out = "valid" THEN Dispatch(verified)
     ELSE IF out = "invalid"
     THEN [verified EXCEPT !.pc = "done", !.status = 401,
                           !.body = "Invalid signature"]
     ELSE HookCaught(verified)

\* lines 10-16: verifyWebhookSignature answers, or throws
HookVerify ==
  /\ hook.pc = "verify"
  /\ \E out \in {"valid", "invalid", "throw"} :
       HookStep(AfterVerify(hook, out), subscriptions)
  /\ UNCHANGED <<now, ticks, currentMonth, rateLimitMap, analysisCache, inserted,
                 usage_tracking, req, cancel, events, log,
                 parsed, statusReq, analyzeReq, subscriptionRows, createReq>>

\* lines 69 and 152: getSubscriptionDetails answers, or throws (it throws for
\* the id undefined of an event without resource); the handler catches
HookDetails ==
  /\ hook.pc = "details"
  /\ \E ok \in BOOLEAN :
       HookStep(IF ok /\ hook.event.hasResource
                THEN [hook EXCEPT !.pc = IF hook.event.type = ACTIVATED
                                         THEN "select" ELSE "update"]
                ELSE HookReceived([hook EXCEPT !.failed = TRUE]),
                subscriptions)
  /\ UNCHANGED <<now, ticks, currentMonth, rateLimitMap, analysisCache, inserted,
                 usage_tracking, req, cancel, events, log,
                 parsed, statusReq, analyzeReq, subscriptionRows, createReq>>

\* lines 72-78: the row of the subscription is looked up; an error of the
\* query is not looked at, the data is null then
HookSelect ==
  /\ hook.pc = "select"
  /\ \E ok \in BOOLEAN :
       LET user == IF ok THEN SelectUserByPaypalId(subscriptions, hook.event.id)
                   ELSE <<>>
       IN HookStep(IF user # <<>>
                   THEN [hook EXCEPT !.pc = "upsert", !.userId = user]
                   ELSE HookReceived([hook EXCEPT !.failed = ~ok]),
                   subscriptions)
  /\ UNCHANGED <<now, ticks, currentMonth, rateLimitMap, analysisCache, inserted,
                 usage_tracking, req, cancel, events, log,
                 parsed, statusReq, analyzeReq, subscriptionRows, createReq>>

\* lines 80-89
HookUpsert ==
  /\ hook.pc = "upsert"
  /\ \E ok \in BOOLEAN :
       LET tier == getTierFromPlanId(hook.event.plan_id)
       IN IF ok
          THEN HookStep(HookReceived(hook),
                        upsertSubscription(subscriptions, hook.userId,
                          [tier |-> tier, status |-> "active",
                           paypalSubscriptionId |-> hook.event.id,
                           paypalPlanId |-> hook.event.plan_id,
                           monthlyLimit |-> PlanLimit(tier),
                           expiresAt |-> hook.event.next_billing_time]))
          ELSE HookStep(HookReceived([hook EXCEPT !.failed = TRUE]), subscriptions)
  /\ UNCHANGED <<now, ticks, currentMonth, rateLimitMap, analysisCache, inserted,
                 usage_tracking, req, cancel, events, log,
                 parsed, statusReq, analyzeReq, subscriptionRows, createReq>>

\* lines 102-105, 117-120, 132-135 and 154-161: the update by
\* paypal_subscription_id
HookUpdate ==
  /\ hook.pc = "update"
  /\ \E ok \in BOOLEAN :
       IF ~ok
       THEN HookStep(HookReceived([hook EXCEPT !.failed = TRUE]), subscriptions)
       ELSE IF hook.event.type \in {RENEWED, SALE_COMPLETED}
       THEN HookStep(HookReceived(hook),
                     RenewByPaypalId(subscriptions, hook.event.id,
                                     hook.event.next_billing_time))
       ELSE HookStep(HookReceived(hook),
                     SetStatusByPaypalId(subscriptions, hook.event.id,
                                         StatusOf(hook.event.type)))
  /\ UNCHANGED <<now, ticks, currentMonth, rateLimitMap, analysisCache, inserted,
                 usage_tracking, req, cancel, events, log,
                 parsed, statusReq, analyzeReq, subscriptionRows, createReq>>

InitWebhook ==
  /\ InitCommon
  /\ EmptyCache
  /\ rateLimitMap = [u \in Users |-> <<>>]
  /\ subscriptions \in
       {[u \in Users |-> IF u = U1 THEN s1
                         ELSE SubRow("active", "premium", FAR_FUTURE, PaypalId(U2))] :
          s1 \in {NoSub,
                  SubRow("active", "basic", CACHE_TTL, PaypalId(U1)),
                  SubRow("cancelled", "pro", FAR_FUTURE, PaypalId(U1))}}
  /\ usage_tracking = <<>>

NextWebhook ==
  \/ HookArrive \/ HookVerify \/ HookDetails
  \/ HookSelect \/ HookUpsert \/ HookUpdate

SpecWebhook == InitWebhook /\ [][NextWebhook]_vars

\* ------------------------------------- the subscription table, row by row

\* Date.now() + 30 * 24 * 60 * 60 * 1000: the 2 592 000 000 ms do not fit
\* 32-bit integers; a period longer than every interval looked at stands
\* for them
THIRTY_DAYS == 500 * CACHE_TTL

Row(userId, data, expires) ==
  [user_id |-> userId, tier |-> data.tier, status |-> data.status,
   paypal_subscription_id |-> data.paypalSubscriptionId,
   paypal_plan_id |-> data.paypalPlanId,
   monthly_limit |-> data.monthlyLimit, expires_at |-> expires]

\* positions of the rows of an identity, and of a PayPal subscription
RowsOfUser(rows, userId) == {i \in 1..Len(rows) : rows[i].user_id = userId}
RowsOfPaypalId(rows, id) ==
  {i \in 1..Len(rows) : rows[i].paypal_subscription_id = id}

\* an upsert that inserts without looking for a conflict
InsertRow(rows, userId, data) ==
  Append(rows, Row(userId, data, data.expiresAt))

\* lib/supabase.js upsertSubscription on the rows: .upsert(record,
\* {onConflict: 'user_id'}) is INSERT ... ON CONFLICT (user_id) DO UPDATE,
\* one statement; an undefined expiresAt is no column of the statement
UpsertRow(rows, userId, data) ==
  IF RowsOfUser(rows, userId) = {}
  THEN Append(rows, Row(userId, data, data.expiresAt))
  ELSE [i \in 1..Len(rows) |->
          IF rows[i].user_id = userId
          THEN Row(userId, data, IF data.expiresAt # NULL_TIME THEN data.expiresAt
                                 ELSE rows[i].expires_at)
          ELSE rows[i]]

\* .update(columns).eq(column, value) for the status and, when given, the
\* expiry date
UpdateRows(rows, hit, status, expires) ==
  [i \in 1..Len(rows) |->
     IF i \in hit
     THEN [rows[i] EXCEPT !.status = status,
                          !.expires_at = IF expires # NULL_TIME THEN expires ELSE @]
     ELSE rows[i]]

\* .single(): the row when exactly one matches, null (<<>>) otherwise
SingleRow(rows, hit) ==
  IF Cardinality(hit) = 1 THEN rows[CHOOSE i \in hit : TRUE] ELSE <<>>

\* res.status(code).json(...): the request is over; of its body only the
\* identity is kept
CreateAnswer(rec, code, error) ==
  [IdleCreate EXCEPT !.pc = "done", !.userId = rec.userId,
                     !.status = code, !.error = error]

\* plans.js lines 138-160: authentication and the tests of the body
CreateArrive ==
  /\ createReq.pc \in {"idle", "done"}
  /\ events < MaxSubEvents
  /\ events' = events + 1
  /\ \E token \in {"invalid", "valid"}, u \in Users,
        subscriptionId \in {"", "I-1", "I-9"}, tier \in {"", "basic", "pro", "gold"} :
       LET rec == [IdleCreate EXCEPT !.userId = u, !.subscriptionId = subscriptionId,
                                     !.tier = tier]
       IN createReq' =
            IF token = "invalid" THEN CreateAnswer(rec, 401, "Unauthorized")
            ELSE IF subscriptionId = ""
            THEN CreateAnswer(rec, 400, "Missing subscription ID")
            ELSE IF tier \notin {"basic", "pro", "premium"}
            THEN CreateAnswer(rec, 400, "Invalid tier")
            ELSE [rec EXCEPT !.pc = "paypal"]
  /\ UNCHANGED <<now, ticks, currentMonth, rateLimitMap, analysisCache, inserted,
                 subscriptions, usage_tracking, req, cancel, log, endpoints,
                 subscriptionRows>>

\* plans.js lines 162-192: the provider is asked for the subscription
CreatePaypal ==
  /\ createReq.pc = "paypal"
  /\ \E ok \in BOOLEAN,
        details \in [status : {"ACTIVE", "APPROVED", "CANCELLED"},
                     plan_id : {"P-pro", "P-x"},
                     next_billing_time : {NULL_TIME, FAR_FUTURE}] :
       createReq' =
         IF ~ok
         THEN CreateAnswer(createReq, 400, "PayPal verification failed")
         ELSE IF details.status \notin {"ACTIVE", "APPROVED"}
         THEN CreateAnswer(createReq, 400, "Subscription not active")
         ELSE [createReq EXCEPT
                 !.pc = "upsert", !.plan_id = details.plan_id,
                 !.expiresAt = IF details.next_billing_time # NULL_TIME
                                THEN details.next_billing_time
                                ELSE now + THIRTY_DAYS]
  /\ UNCHANGED <<now, ticks, currentMonth, rateLimitMap, analysisCache, inserted,
                 subscriptions, usage_tracking, req, cancel, events, log, endpoints,
                 subscriptionRows>>

\* plans.js lines 196-226: the row is written and the request answered
CreateUpsert ==
  /\ createReq.pc = "upsert"
  /\ \E ok \in BOOLEAN :
       IF ok
       THEN /\ subscriptionRows' =
                 UpsertRow(subscriptionRows, createReq.userId,
                           [tier |-> createReq.tier, status |-> "active",
                            paypalSubscriptionId |-> createReq.subscriptionId,
                            paypalPlanId |-> createReq.plan_id,
                            monthlyLimit |-> PlanLimit(createReq.tier),
                            expiresAt |-> createReq.expiresAt])
            /\ createReq' = CreateAnswer(createReq, 200, "")
       ELSE /\ UNCHANGED subscriptionRows
            /\ createReq' = CreateAnswer(createReq, 500, "Database error")
  /\ UNCHANGED <<now, ticks, currentMonth, rateLimitMap, analysisCache, inserted,
                 subscriptions, usage_tracking, req, cancel, events, log, endpoints>>

\* cancel.js: a signed-in user asks to cancel
RowCancelArrive ==
  /\ cancel.pc \in {"idle", "done"}
  /\ events < MaxSubEvents
  /\ events' = events + 1
  /\ \E u \in Users : cancel' = [IdleCancel EXCEPT !.pc = "read", !.userId = u]
  /\ UNCHANGED <<now, ticks, currentMonth, rateLimitMap, analysisCache, inserted,
                 subscriptions, usage_tracking, req, log, endpoints, subscriptionRows, createReq>>

\* cancel.js lines 10-24, getUserSubscription on the rows
RowCancelRead ==
  /\ cancel.pc = "read"
  /\ \E ok \in BOOLEAN :
       LET subscription ==
             SingleRow(subscriptionRows,
                       {i \in RowsOfUser(subscriptionRows, cancel.userId) :
                          subscriptionRows[i].status = "active"})
       IN cancel' = IF ~ok THEN [cancel EXCEPT !.pc = "done", !.status = 500]
                    ELSE IF subscription = <<>>
                    THEN [cancel EXCEPT !.pc = "done", !.status = 404]
                    ELSE IF subscription.paypal_subscription_id = ""
                    THEN [cancel EXCEPT !.pc = "done", !.status = 400]
                    ELSE [cancel EXCEPT !.pc = "paypal"]
  /\ UNCHANGED <<now, ticks, currentMonth, rateLimitMap, analysisCache, inserted,
                 subscriptions, usage_tracking, req, events, log, endpoints, subscriptionRows, createReq>>

\* cancel.js lines 32-38, cancelUserSubscription on the rows: the update by
\* user_id with .select().single(), which throws unless one row was updated
RowCancelUpdate ==
  /\ cancel.pc = "update"
  /\ \E ok \in BOOLEAN :
       LET hit == RowsOfUser(subscriptionRows, cancel.userId)
       IN IF ok
          THEN /\ subscriptionRows' =
                    UpdateRows(subscriptionRows, hit, "cancelled", NULL_TIME)
               /\ cancel' = [cancel EXCEPT !.pc = "done",
                                           !.status = IF Cardinality(hit) = 1
                                                      THEN 200 ELSE 500]
          ELSE /\ UNCHANGED subscriptionRows
               /\ cancel' = [cancel EXCEPT !.pc = "done", !.status = 500]
  /\ UNCHANGED <<now, ticks, currentMonth, rateLimitMap, analysisCache, inserted,
                 subscriptions, usage_tracking, req, events, log, endpoints,
                 createReq>>

\* the webhook request moves to rec; of an answered request the answer is
\* kept
RowHook(rec) ==
  /\ hook' = IF rec.pc = "done"
             THEN [IdleHook EXCEPT !.pc = "done", !.status = rec.status,
                                   !.body = rec.body]
             ELSE rec
  /\ UNCHANGED <<now, ticks, currentMonth, rateLimitMap, analysisCache, inserted,
                 subscriptions, usage_tracking, req, cancel, log,
                 parsed, deliveries, statusReq, analyzeReq, createReq>>

\* webhooks/paypal.js up to the first store call of the handler: the
\* signature check and the provider lookup read and write no shared state,
\* so their outcomes are drawn here; the provider reports a next billing
\* time for every subscription it knows
RowHookArrive ==
  /\ hook.pc \in {"idle", "done"}
  /\ events < MaxSubEvents
  /\ events' = events + 1
  /\ UNCHANGED subscriptionRows
  /\ \E event \in {e \in HookEvents :
                       (e.type \in DetailTypes /\ e.hasResource) =>
                         e.next_billing_time = FAR_FUTURE},
        verify \in {"off", "valid", "invalid", "throw"}, detailsOk \in BOOLEAN :
       LET rec == [IdleHook EXCEPT !.event = event, !.verify = verify # "off"]
           started == Dispatch(rec)
       IN RowHook(IF verify = "invalid"
                  THEN [rec EXCEPT !.pc = "done", !.status = 401,
                                   !.body = "Invalid signature"]
                  ELSE IF verify = "throw" THEN HookCaught(rec)
                  ELSE IF started.pc # "details" THEN started
                  ELSE IF ~(detailsOk /\ event.hasResource)
                  THEN HookReceived([started EXCEPT !.failed = TRUE])
                  ELSE [started EXCEPT !.pc = IF event.type = ACTIVATED
                                              THEN "select" ELSE "update"])

\* webhooks/paypal.js lines 72-78 on the rows
RowHookSelect ==
  /\ hook.pc = "select"
  /\ UNCHANGED <<events, subscriptionRows>>
  /\ \E ok \in BOOLEAN :
       LET existingSubscription ==
             IF ok THEN SingleRow(subscriptionRows,
                                  RowsOfPaypalId(subscriptionRows, hook.event.id))
             ELSE <<>>
       IN RowHook(IF existingSubscription # <<>>
                  THEN [hook EXCEPT !.pc = "upsert",
                                    !.userId = existingSubscription.user_id]
                  ELSE HookReceived([hook EXCEPT !.failed = ~ok]))

\* webhooks/paypal.js lines 80-89 on the rows
RowHookUpsert ==
  /\ hook.pc = "upsert"
  /\ UNCHANGED events
  /\ \E ok \in BOOLEAN :
       LET tier == getTierFromPlanId(hook.event.plan_id)
       IN IF ok
          THEN /\ subscriptionRows' =
                    UpsertRow(subscriptionRows, hook.userId,
                              [tier |-> tier, status |-> "active",
                               paypalSubscriptionId |-> hook.event.id,
                               paypalPlanId |-> hook.event.plan_id,
                               monthlyLimit |-> PlanLimit(tier),
                               expiresAt |-> hook.event.next_billing_time])
               /\ RowHook(HookReceived(hook))
          ELSE /\ UNCHANGED subscriptionRows
               /\ RowHook(HookReceived([hook EXCEPT !.failed = TRUE]))

\* webhooks/paypal.js lines 102-105, 117-120, 132-135 and 154-161 on the rows
RowHookUpdate ==
  /\ hook.pc = "update"
  /\ UNCHANGED events
  /\ \E ok \in BOOLEAN :
       LET hit == RowsOfPaypalId(subscriptionRows, hook.event.id)
       IN IF ~ok
          THEN /\ UNCHANGED subscriptionRows
               /\ RowHook(HookReceived([hook EXCEPT !.failed = TRUE]))
          ELSE /\ subscriptionRows' =
                    IF hook.event.type \in {RENEWED, SALE_COMPLETED}
                    THEN UpdateRows(subscriptionRows, hit, "active",
                                    hook.event.next_billing_time)
                    ELSE UpdateRows(subscriptionRows, hit,
                                    StatusOf(hook.event.type), NULL_TIME)
               /\ RowHook(HookReceived(hook))

InitSubs ==
  /\ InitCommon
  /\ EmptyCache
  /\ rateLimitMap = [u \in Users |-> <<>>]
  /\ subscriptions = [u \in Users |-> NoSub]
  /\ usage_tracking = <<>>

NextSubs ==
  \/ CreateArrive \/ CreatePaypal \/ CreateUpsert
  \/ RowCancelArrive \/ RowCancelRead \/ CancelPaypal \/ RowCancelUpdate
  \/ RowHookArrive \/ RowHookSelect \/ RowHookUpsert \/ RowHookUpdate

SpecSubs == InitSubs /\ [][NextSubs]_vars


\* ================================================================== claims

\* C1: for every identity, of the calls of checkRateLimit made within one
\* RATE_LIMIT_WINDOW of the first, the first RATE_LIMIT_MAX return true and
\* the following ones (the 21st) return false; a call made when the window
\* has elapsed since every accepted call returns true again.
C1_RateLimit ==
  \A u \in Users : \A i \in 1..Len(rateLog[u]) :
    /\ rateLog[u][i].t - rateLog[u][1].t < RATE_LIMIT_WINDOW
         => (rateLog[u][i].ok <=> i <= RATE_LIMIT_MAX)
    /\ (\A j \in 1..(i - 1) :
          rateLog[u][j].ok => rateLog[u][i].t - rateLog[u][j].t >= RATE_LIMIT_WINDOW)
         => rateLog[u][i].ok

\* 21 calls in one window, the last one rejected, and a later call accepted
C1_Witness ==
  /\ Len(rateLog[U1]) = RATE_LIMIT_MAX + 2
  /\ rateLog[U1][RATE_LIMIT_MAX + 1].t - rateLog[U1][1].t < RATE_LIMIT_WINDOW
  /\ ~rateLog[U1][RATE_LIMIT_MAX + 1].ok
  /\ rateLog[U1][RATE_LIMIT_MAX + 2].ok


\* request r does its cache lookup in this step (lines 232-237)
Lookup(r) == req[r].cacheKey = <<>> /\ req'[r].cacheKey # <<>>

\* entry e was stored by a cache-miss request that was answered its text
StoredByRequest(e) ==
  \E q \in Reqs : /\ req[q].status = 200 /\ ~req[q].cached
                  /\ req[q].cacheKey = e.key /\ req[q].text = e.text
                  /\ req[q].storedAt = e.timestamp

Oldest(cache) ==
  CHOOSE i \in 1..Len(cache) : \A j \in 1..Len(cache) : cache[i].ord <= cache[j].ord

Keys(cache) == {cache[i].key : i \in 1..Len(cache)}

\* C3: a store of a new key that raises the entry count above CACHE_MAX_SIZE
\* evicts exactly one entry, the one inserted earliest among those present; a
\* store that does not exceed the bound evicts nothing; a cache hit leaves the
\* cache, hence the next entry to evict, as it was; once CACHE_MAX_SIZE + 1
\* distinct keys were inserted, exactly CACHE_MAX_SIZE are present and the
\* first-inserted one is absent.
C3_FifoEviction ==
  /\ [][/\ ((Keys(analysisCache') \ Keys(analysisCache) # {}
               /\ Len(analysisCache) + 1 > CACHE_MAX_SIZE) =>
               (/\ Keys(analysisCache) \ Keys(analysisCache')
                    = {analysisCache[Oldest(analysisCache)].key}
                /\ Len(analysisCache') = CACHE_MAX_SIZE))
         /\ ((Keys(analysisCache') \ Keys(analysisCache) # {}
               /\ Len(analysisCache) + 1 <= CACHE_MAX_SIZE) =>
               (/\ Keys(analysisCache) \subseteq Keys(analysisCache')
                /\ Len(analysisCache') = Len(analysisCache) + 1))
         /\ \A r \in Reqs : (req'[r].cached /\ ~req[r].cached) =>
               analysisCache' = analysisCache]_vars
  /\ [](inserted = CACHE_MAX_SIZE + 1 =>
          /\ Len(analysisCache) = CACHE_MAX_SIZE
          /\ \A i \in 1..Len(analysisCache) : analysisCache[i].ord # 1)

\* 101 keys were inserted, the first one is gone, and a request was answered
\* from the cache
C3_Witness ==
  /\ inserted = CACHE_MAX_SIZE + 1
  /\ Len(analysisCache) = CACHE_MAX_SIZE
  /\ analysisCache[1].ord = 2
  /\ \E r \in Reqs : req[r].cached


\* the row of usage_tracking for (u, month) that was created last
LatestUsage(table, u, month) ==
  LET ids == UsageMatch(table, u, month)
  IN CHOOSE i \in ids : \A j \in ids : j <= i

\* C4: getUserUsage creates the row of an identity that has none for the
\* current month with count 0 and returns 0; as long as the calls of
\* incrementUsage for an identity do not overlap, the identity has at most one
\* row and, between calls, its count is the number of calls that completed.
C4_SequentialUsage ==
  /\ [][Len(usage_tracking') # Len(usage_tracking) =>
          /\ Len(usage_tracking') = Len(usage_tracking) + 1
          /\ usage_tracking'[Len(usage_tracking')].analyses_count = 0
          /\ \E r \in Reqs :
               /\ req[r].inc = "insert" /\ req'[r].inc = "update"
               /\ req'[r].incCount = 0 /\ req'[r].incId = Len(usage_tracking')
               /\ usage_tracking'[Len(usage_tracking')].user_id = req[r].userId
               /\ usage_tracking'[Len(usage_tracking')].month = currentMonth]_vars
  /\ [][\A r \in Reqs :
          (/\ req[r].inc = "select" /\ req'[r].inc \notin {"select", "failed"}
           /\ UsageMatch(usage_tracking, req[r].userId, currentMonth) = {})
          => req'[r].inc = "insert"]_vars
  /\ [](\A u \in Users :
          (~usageLog[u].overlap /\ InFlight(u) = {}) =>
            LET ids == UsageMatch(usage_tracking, u, currentMonth)
            IN /\ Cardinality(ids) <= 1
               /\ ids = {} => usageLog[u].completed = 0
               /\ ids # {} =>
                    usage_tracking[LatestUsage(usage_tracking, u, currentMonth)]
                      .analyses_count = usageLog[u].completed)

\* two calls of incrementUsage, one after the other, both completed
C4_Witness ==
  /\ ~usageLog[U1].overlap /\ InFlight(U1) = {}
  /\ usageLog[U1].calls = 2 /\ usageLog[U1].completed = 2
  /\ UsageMatch(usage_tracking, U1, currentMonth) # {}
  /\ usage_tracking[LatestUsage(usage_tracking, U1, currentMonth)].analyses_count = 2


\* the steps in which hasReachedUsageLimit is running for request r
InLimitCheck(rec) == rec.pc \in {"limit_sub", "limit_usage", "limit_usage_ins"}

\* hasReachedUsageLimit returns (does not throw) for request r in this step
LimitReturns(r) ==
  /\ InLimitCheck(req[r]) /\ ~InLimitCheck(req'[r])
  /\ req'[r].error # "store error"

\* the active subscription row of u in the store
ActiveRow(u) == subscriptions[u].found /\ subscriptions[u].status = "active"

\* C5: hasReachedUsageLimit returns true when the identity has no active
\* subscription row, false when the monthly_limit of the row is the unlimited
\* sentinel -1 whatever the count, and otherwise, with the limit of the row it
\* read, true exactly when the count of the current month (0 for a row it
\* has just created) is >= that limit.
C5_LimitReached ==
  [][\A r \in Reqs :
       LET u == req[r].userId
           rows == UsageMatch(usage_tracking, u, currentMonth)
       IN /\ (LimitReturns(r) /\ req[r].pc = "limit_sub") =>
               /\ ~ActiveRow(u) => req'[r].limitReached
               /\ ActiveRow(u) =>
                    (subscriptions[u].monthly_limit = UNLIMITED /\ ~req'[r].limitReached)
          /\ (req[r].pc = "limit_sub" /\ req'[r].pc = "limit_usage") =>
               /\ ActiveRow(u) /\ req'[r].sub = subscriptions[u]
               /\ subscriptions[u].monthly_limit # UNLIMITED
          /\ (LimitReturns(r) /\ req[r].pc = "limit_usage") =>
               /\ Cardinality(rows) = 1
               /\ req'[r].limitReached <=>
                    (usage_tracking[CHOOSE i \in rows : TRUE].analyses_count
                       >= req[r].sub.monthly_limit)
          /\ (LimitReturns(r) /\ req[r].pc = "limit_usage_ins") =>
               (req'[r].limitReached <=> (0 >= req[r].sub.monthly_limit))]_vars

\* hasReachedUsageLimit has just returned true for a basic subscriber whose count equals
\* the limit of the plan
C5_Witness ==
  \E r \in Reqs :
    /\ req[r].pc = "msg_sub" /\ req[r].limitReached
    /\ req[r].sub.found /\ req[r].sub.monthly_limit = BASIC_LIMIT
    /\ \E i \in UsageMatch(usage_tracking, req[r].userId, currentMonth) :
         usage_tracking[i].analyses_count = BASIC_LIMIT


\* C6 as stated: a request issued by the same user with the same bytes within
\* CACHE_TTL of a cache-miss request answered 200 with text T is answered 200
\* with T from the cache without a vision call.
C6_Original ==
  \A r \in Reqs :
    (req[r].pc = "done" /\ req[r].dupOf # <<>>) =>
      /\ req[r].status = 200 /\ req[r].cached
      /\ req[r].text = req[r].dupOf /\ req[r].vision = 0

\* C6: a second request by the same user with the same bytes that passes the
\* rate-limit, subscription and usage-limit checks and does its cache lookup
\* while the entry stored by a first request (a cache miss answered 200 with
\* text T) is still in the cache and younger than CACHE_TTL is answered 200
\* with T from the cache; it makes no vision call, starts no usage increment
\* and leaves the cache as it was.
C6_SecondFromCache ==
  [][\A r \in Reqs : \A q \in Reqs \ {r} :
       LET i == CacheIndex(analysisCache, req'[r].cacheKey)
       IN (/\ Lookup(r)
           /\ req[q].pc = "done" /\ req[q].status = 200 /\ ~req[q].cached
           /\ req[q].userId = req[r].userId /\ req[q].buffer = req[r].buffer
           /\ i # 0 /\ analysisCache[i].text = req[q].text
           /\ analysisCache[i].timestamp = req[q].storedAt
           /\ now - req[q].storedAt < CACHE_TTL)
          => /\ req'[r].pc = "done" /\ req'[r].status = 200 /\ req'[r].cached
             /\ req'[r].text = req[q].text
             /\ req'[r].vision = 0 /\ req'[r].inc = "none"
             /\ analysisCache' = analysisCache]_vars

\* a request was answered from the cache the text a first request got from
\* its vision call
C6_Witness ==
  \E r \in Reqs : \E q \in Reqs \ {r} :
    /\ req[q].pc = "done" /\ req[q].status = 200 /\ ~req[q].cached /\ req[q].vision = 1
    /\ req[r].pc = "done" /\ req[r].status = 200 /\ req[r].cached /\ req[r].vision = 0
    /\ req[r].dupOf = req[q].text /\ req[r].text = req[q].text
    /\ req[r].userId = req[q].userId /\ req[r].buffer = req[q].buffer


\* u has a subscription row that is active and expires in the future
ActiveUnexpired(u) ==
  /\ ActiveRow(u)
  /\ subscriptions[u].expires_at # NULL_TIME /\ subscriptions[u].expires_at > now

\* C7 as stated: every request of an authenticated identity without an
\* active, unexpired subscription is answered 403.
C7_Original ==
  \A r \in Reqs :
    (/\ req[r].pc = "done" /\ req[r].token = "valid" /\ req[r].status # 401
     /\ ~ActiveUnexpired(req[r].userId))
    => req[r].status = 403

\* C7: a request of an authenticated identity whose upload is accepted, that
\* passes the rate limit and whose subscription lookup succeeds without
\* finding an active, unexpired subscription is answered 403 at that point;
\* no request of an identity without such a subscription is answered 200.
C7_NoSubscription403 ==
  /\ [][\A r \in Reqs :
          (/\ req[r].pc = "sub" /\ req'[r].pc # "sub"
           /\ req'[r].error # "store error"
           /\ ~ActiveUnexpired(req[r].userId))
          => /\ req'[r].pc = "done" /\ req'[r].status = 403
             /\ req'[r].error = "Subscription required"
             /\ req'[r].vision = 0]_vars
  /\ [](\A r \in Reqs : req[r].status = 200 => ActiveUnexpired(req[r].userId))

\* a user whose active row has no expiry date was answered 403
C7_Witness ==
  \E r \in Reqs :
    /\ req[r].pc = "done" /\ req[r].status = 403
    /\ req[r].error = "Subscription required"
    /\ ActiveRow(req[r].userId)
    /\ subscriptions[req[r].userId].expires_at = NULL_TIME


\* C8: a request whose usage-limit check reported the quota as exceeded, and
\* whose store queries all succeeded, is answered 403, whatever the cancel
\* endpoint and the cancelled/suspended/expired webhooks do meanwhile.
C8_QuotaExceeded403 ==
  \A r \in Reqs :
    (req[r].pc = "done" /\ req[r].limitReached /\ req[r].error # "store error")
    => req[r].status = 403


\* C9: a request without a valid bearer token is answered 401 in the step in
\* which it arrives, and that step makes no vision call, starts no usage
\* increment and leaves the rate-limit map, the cache and the usage rows
\* unchanged; such a request takes no further step.
C9_Unauthenticated401 ==
  [][\A r \in Reqs :
       (req'[r] # req[r] /\ req'[r].token # "valid") =>
         /\ req[r].pc = "idle"
         /\ req'[r].pc = "done" /\ req'[r].status = 401
         /\ req'[r].vision = 0 /\ req'[r].inc = "none" /\ ~req'[r].cached
         /\ rateLimitMap' = rateLimitMap
         /\ analysisCache' = analysisCache
         /\ usage_tracking' = usage_tracking]_vars

\* a request with a token the auth provider rejects and one without a token
\* were answered 401
C9_Witness ==
  \E r \in Reqs : \E q \in Reqs :
    /\ req[r].token = "invalid" /\ req[r].pc = "done" /\ req[r].status = 401
    /\ req[q].token = "none" /\ req[q].pc = "done" /\ req[q].status = 401


\* C10: the cache keys of two distinct identities for the same bytes differ,
\* every entry of the cache is under a key of the identity that stored it, and
\* a response served from the cache carries the text of an entry stored by a
\* request of the same identity.
C10_CacheIsolation ==
  /\ \A a \in Users : \A b \in Users \ {a} : \A buffer \in Images :
       generateCacheKey(buffer, a) # generateCacheKey(buffer, b)
  /\ \A i \in 1..Len(analysisCache) :
       \A u \in Users \ {analysisCache[i].owner} : \A buffer \in Images :
         analysisCache[i].key # generateCacheKey(buffer, u)
  /\ \A r \in Reqs : req[r].cached => req[r].servedFrom = req[r].userId

\* two identities uploaded the same bytes; both went to the vision API and
\* the cache holds an entry of each
C10_Witness ==
  \E r \in Reqs : \E q \in Reqs :
    /\ req[r].userId # req[q].userId /\ req[r].buffer = req[q].buffer
    /\ req[r].status = 200 /\ req[q].status = 200
    /\ ~req[r].cached /\ ~req[q].cached
    /\ CacheIndex(analysisCache, req[r].cacheKey) # 0
    /\ CacheIndex(analysisCache, req[q].cacheKey) # 0
    /\ req[r].cacheKey # req[q].cacheKey


\* C11: the step that launches the usage increment is the step that sends
\* the 200 response, and it writes no usage row; no step of the increment
\* (success, failure, or none at all) changes the status or the body of the
\* response; an increment that failed takes no further step.
C11_FireAndForget ==
  [][\A r \in Reqs :
       /\ (req[r].inc = "none" /\ req'[r].inc # "none") =>
            /\ req'[r].inc = "select"
            /\ req'[r].pc = "done" /\ req'[r].status = 200
            /\ usage_tracking' = usage_tracking
       /\ req[r].inc # "none" =>
            /\ req'[r].pc = req[r].pc /\ req'[r].status = req[r].status
            /\ req'[r].text = req[r].text /\ req'[r].error = req[r].error
            /\ req'[r].cached = req[r].cached
       /\ req[r].inc = "failed" => req'[r] = req[r]]_vars

\* two requests were answered 200 with the same text; the increment of one
\* failed and that of the other completed
C11_Witness ==
  \E r \in Reqs : \E q \in Reqs :
    /\ req[r].status = 200 /\ req[q].status = 200 /\ req[r].text = req[q].text
    /\ req[r].inc = "failed" /\ req[q].inc = "done"


\* the steps of the handler that can follow one another
StepOrder ==
  [idle |-> {"upload", "done"},
   upload |-> {"sub", "done"},
   sub |-> {"limit_sub", "done"},
   limit_sub |-> {"limit_usage", "msg_sub", "vision", "done"},
   limit_usage |-> {"limit_usage_ins", "msg_sub", "vision", "done"},
   limit_usage_ins |-> {"msg_sub", "vision", "done"},
   msg_sub |-> {"msg_usage", "done"},
   msg_usage |-> {"msg_usage_ins", "done"},
   msg_usage_ins |-> {"done"},
   vision |-> {"done"},
   done |-> {}]

\* C12: a request goes through rate-limit check, subscription check,
\* usage-limit check, cache lookup, vision call, cache store, launch of the
\* increment and response in this order, one step at a time: the rate-limit
\* map is written only by the rate-limit step, the lookup is done only when
\* the usage-limit check has passed, the vision call is made only after a
\* lookup that missed, the cache is written and the increment launched only
\* in the step that answers 200 after the vision call, and a request that
\* was answered takes no later step of the handler.
C12_StepOrder ==
  [][\A r \in Reqs :
       /\ req'[r].pc # req[r].pc => req'[r].pc \in StepOrder[req[r].pc]
       /\ Lookup(r) =>
            /\ InLimitCheck(req[r]) /\ ~req'[r].limitReached
            /\ req'[r].pc \in {"vision", "done"}
       /\ req'[r].vision # req[r].vision =>
            /\ req[r].pc = "vision" /\ req[r].cacheKey # <<>>
            /\ req'[r].vision = req[r].vision + 1 /\ req'[r].pc = "done"
       /\ req'[r].inc # req[r].inc /\ req[r].inc = "none" =>
            /\ req[r].pc = "vision" /\ req'[r].status = 200
            /\ CacheIndex(analysisCache', req[r].cacheKey) # 0
       /\ (req[r].pc # "done" /\ req'[r].pc = "done" /\ req'[r].status # 200) =>
            /\ analysisCache' = analysisCache
            /\ req'[r].inc = "none"
            /\ req[r].pc # "upload" => rateLimitMap' = rateLimitMap
       /\ req[r].pc = "done" =>
            /\ req'[r].pc = "done" /\ req'[r].vision = req[r].vision
            /\ req'[r].cacheKey = req[r].cacheKey]_vars
  /\ [][/\ rateLimitMap' # rateLimitMap =>
            \E r \in Reqs : req[r].pc = "upload" /\ req'[r].pc = "sub"
        /\ analysisCache' # analysisCache =>
            \E r \in Reqs : /\ req[r].pc = "vision" /\ req'[r].status = 200
                            /\ req'[r].inc = "select"]_vars

\* one request went through every step and was answered 200; another was
\* rejected by the subscription check and did nothing after it
C12_Witness ==
  \E r \in Reqs : \E q \in Reqs :
    /\ req[r].pc = "done" /\ req[r].status = 200 /\ ~req[r].cached
    /\ req[r].vision = 1 /\ req[r].inc # "none"
    /\ CacheIndex(analysisCache, req[r].cacheKey) # 0
    /\ rateLimitMap[req[r].userId] # <<>>
    /\ req[q].pc = "done" /\ req[q].status = 403
    /\ req[q].error = "Subscription required"
    /\ req[q].cacheKey = <<>> /\ req[q].vision = 0 /\ req[q].inc = "none"


\* C19: between the steps of the handlers the cache never holds more than
\* CACHE_MAX_SIZE entries.
C19_CacheBounded == Len(analysisCache) <= CACHE_MAX_SIZE

\* two keys were stored in a full cache, which still holds CACHE_MAX_SIZE
C19_Witness ==
  /\ Len(analysisCache) = CACHE_MAX_SIZE
  /\ inserted = CACHE_MAX_SIZE + 2
  /\ \A r \in Reqs : req[r].status = 200 /\ ~req[r].cached


\* C20: a call of checkRateLimit that returns false leaves the rate-limit
\* map as it was; a call that returns true stores the caller's timestamps
\* still in the window followed by the time of the call and leaves the
\* other identities alone; nothing else changes the map.
C20_RejectedCallNoWrite ==
  [][/\ \A u \in Users :
          Len(rateLog'[u]) = Len(rateLog[u]) + 1 =>
            IF rateLog'[u][Len(rateLog'[u])].ok
            THEN /\ rateLimitMap'[u] = Append(Filter(rateLimitMap[u], now), now)
                 /\ \A v \in Users \ {u} : rateLimitMap'[v] = rateLimitMap[v]
            ELSE rateLimitMap' = rateLimitMap
     /\ rateLimitMap' # rateLimitMap =>
          \E u \in Users : /\ Len(rateLog'[u]) = Len(rateLog[u]) + 1
                           /\ rateLog'[u][Len(rateLog'[u])].ok]_vars

\* a call was rejected and the map holds the RATE_LIMIT_MAX accepted
\* timestamps of the caller
C20_Witness ==
  /\ Len(rateLog[U1]) = RATE_LIMIT_MAX + 1
  /\ ~rateLog[U1][RATE_LIMIT_MAX + 1].ok
  /\ Len(rateLimitMap[U1]) = RATE_LIMIT_MAX
  /\ \A i \in 1..RATE_LIMIT_MAX : rateLimitMap[U1][i] = rateLog[U1][i].t


\* C13: for an answer without error sentinel, when both markers occur the
\* extracted text is the trimmed text strictly between the start marker and
\* the end marker, wherever the two are; when one is absent it is the whole
\* (trimmed) answer.
C13_MarkerParsing ==
  (parsed.pc = "done" /\ ~parsed.rejected) =>
    LET c == parsed.responseContent
    IN IF Includes(c, START_MARKER) /\ Includes(c, END_MARKER)
       THEN parsed.extractedText =
              Trim(SubSeq(c, IndexOf(c, START_MARKER) + 2, IndexOf(c, END_MARKER)))
       ELSE parsed.extractedText = c


\* C18: no step lowers the count of a usage row, however the calls of
\* incrementUsage for one identity and month interleave.
C18_CountNeverDecreases ==
  [][\A i \in 1..Len(usage_tracking) :
       usage_tracking'[i].analyses_count >= usage_tracking[i].analyses_count]_vars


\* messages is a non-empty array of strings
ProperMessages(messages) ==
  /\ messages.kind = "array" /\ Len(messages.items) > 0
  /\ \A i \in 1..Len(messages.items) : messages.items[i].type = "string"

\* C17: an analyze request whose messages field is absent, not an array,
\* empty, or an array with an element that is not a string is answered 400
\* and no LLM call is made for it.
C17_RejectsBadMessages ==
  (analyzeReq.pc # "idle" /\ ~ProperMessages(analyzeReq.messages)) =>
    /\ analyzeReq.pc = "done" /\ analyzeReq.status = 400
    /\ analyzeReq.llm = 0


\* C16: the status endpoint never answers 500; a request one of whose store
\* calls failed is answered 200 with hasSubscription false and no
\* subscription; every answered request has status 200, or 401 from the
\* auth middleware.
C16_StatusNever500 ==
  /\ statusReq.status # 500
  /\ statusReq.pc = "done" => statusReq.status \in {200, 401}
  /\ statusReq.failed =>
       /\ statusReq.pc = "done" /\ statusReq.status = 200
       /\ ~statusReq.hasSubscription /\ statusReq.subscription = NoSub

\* the usage query failed for a user whose subscription is active and not
\* expired, and the answer is 200 without subscription
C16_Witness ==
  /\ statusReq.failed /\ statusReq.status = 200 /\ ~statusReq.hasSubscription
  /\ statusReq.sub.found /\ NotExpired(statusReq.sub, now)


\* C14: when a delivery of an event whose every call succeeded is followed
\* by a delivery of the same event, with the provider reporting the same
\* subscription details, the subscription store after the second delivery
\* is the store after the first, whatever the type of the event and whether
\* or not the calls of the second delivery succeed.
C14_WebhookIdempotent ==
  \A i \in 1..(Len(deliveries) - 1) :
    (deliveries[i].event = deliveries[i + 1].event /\ deliveries[i].ok) =>
      /\ deliveries[i + 1].before = deliveries[i].after
      /\ deliveries[i + 1].after = deliveries[i].after

\* an event that changed the store was applied a second time, with success
C14_Witness ==
  /\ Len(deliveries) = 2
  /\ deliveries[1].ok /\ deliveries[2].ok
  /\ deliveries[1].event.type \in {ACTIVATED, RENEWED}
  /\ deliveries[1].before # deliveries[1].after
  /\ deliveries[2].after = deliveries[1].after


\* C15: a webhook request that got past the signature check, so that its
\* event was read, is answered 200 with the body {received: true}.
C15_AlwaysReceived ==
  (hook.pc = "done" /\ hook.parsed) =>
    (hook.status = 200 /\ hook.body = "received")


\* C21: when a call of checkRateLimit for an identity returns, accepted or
\* rejected, every timestamp of the sequence stored for that identity is
\* less than RATE_LIMIT_WINDOW before the time of the call.
C21_RateWindow ==
  [][\A u \in Users :
       Len(rateLog'[u]) = Len(rateLog[u]) + 1 =>
         \A i \in 1..Len(rateLimitMap'[u]) :
           now - rateLimitMap'[u][i] < RATE_LIMIT_WINDOW]_vars

\* a timestamp a full window old is in the stored sequence between calls,
\* after calls accepted at different times and a rejected one
C21_Witness ==
  /\ \E i \in 1..Len(rateLog[U1]) : ~rateLog[U1][i].ok
  /\ \E i, j \in 1..Len(rateLog[U1]) :
       /\ rateLog[U1][i].ok /\ rateLog[U1][j].ok
       /\ rateLog[U1][i].t # rateLog[U1][j].t
  /\ \E i \in 1..Len(rateLimitMap[U1]) :
       now - rateLimitMap[U1][i] >= RATE_LIMIT_WINDOW


\* request r is answered in this step, 200 from an extraction
Extracted(r) ==
  /\ req[r].pc # "done" /\ req'[r].pc = "done"
  /\ req'[r].status = 200 /\ ~req'[r].cached

\* C22: the step in which an OCR request is answered 200 from a cache-miss
\* extraction stores the extracted text under the request's key and launches
\* the request's increment, and it is the only step doing either: a request
\* launches its increment in that step and in no other (so not when it is
\* answered from the cache, 4xx or 5xx, and not twice), and the cache
\* changes in such steps only.
C22_StoreAndIncrementOnce ==
  [][/\ \A r \in Reqs :
          /\ (req[r].inc = "none" /\ req'[r].inc # "none") <=> Extracted(r)
          /\ req[r].inc # "none" => req'[r].inc # "none"
          /\ Extracted(r) =>
               LET i == CacheIndex(analysisCache', req'[r].cacheKey)
               IN /\ i # 0
                  /\ analysisCache'[i].text = req'[r].text
                  /\ analysisCache'[i].timestamp = now
          /\ req[r].pc = "done" => req'[r].pc = "done"
     /\ analysisCache' # analysisCache => \E r \in Reqs : Extracted(r)]_vars

\* one request was answered from an extraction and its increment ran, a
\* second one was answered from the cache and launched none, with one
\* entry in the cache
C22_Witness ==
  \E r \in Reqs : \E q \in Reqs :
    /\ req[r].pc = "done" /\ req[r].status = 200 /\ ~req[r].cached
    /\ req[r].inc = "done"
    /\ req[q].pc = "done" /\ req[q].status = 200 /\ req[q].cached
    /\ req[q].inc = "none"
    /\ Len(analysisCache) = 1


\* the rows of the store s that belong to the subscription of event e
RowOf(s, e, u) == s[u].found /\ e.hasResource /\ s[u].paypal_subscription_id = e.id

\* C23 as stated: every delivery of a cancelled, suspended or expired event
\* sets the status of the rows of its subscription and nothing else, every
\* delivery of a renewed event sets their status to active and their
\* expires_at to the provider's next billing time, and a payment-failed
\* event changes nothing.
C23_Original ==
  \A i \in 1..Len(deliveries) :
    LET d == deliveries[i]
        e == d.event
    IN /\ e.type \in {CANCELLED, SUSPENDED, EXPIRED} =>
            d.after = [u \in Users |->
                         IF RowOf(d.before, e, u)
                         THEN [d.before[u] EXCEPT
                                 !.status = IF e.type = CANCELLED THEN "cancelled"
                                            ELSE IF e.type = SUSPENDED THEN "suspended"
                                            ELSE "expired"]
                         ELSE d.before[u]]
       /\ e.type = RENEWED =>
            d.after = [u \in Users |->
                         IF RowOf(d.before, e, u)
                         THEN [d.before[u] EXCEPT !.status = "active",
                                                  !.expires_at = e.next_billing_time]
                         ELSE d.before[u]]
       /\ e.type = PAYMENT_FAILED => d.after = d.before

\* C23: a delivery of a cancelled, suspended or expired event whose store
\* update succeeds sets the status of the rows of its subscription to
\* cancelled, suspended or expired and changes nothing else; a delivery of a
\* renewed event whose provider lookup and store update succeed sets their
\* status to active and their expires_at to the provider's next billing
\* time, leaving expires_at as it was when the provider reports none; a
\* payment-failed event, and every delivery that is refused or whose call
\* fails, changes nothing; no event other than an activated one changes a
\* row of another subscription.
C23_EventTable ==
  \A i \in 1..Len(deliveries) :
    LET d == deliveries[i]
        e == d.event
    IN /\ (e.type \in {CANCELLED, SUSPENDED, EXPIRED} /\ d.ok) =>
            d.after = [u \in Users |->
                         IF RowOf(d.before, e, u)
                         THEN [d.before[u] EXCEPT
                                 !.status = IF e.type = CANCELLED THEN "cancelled"
                                            ELSE IF e.type = SUSPENDED THEN "suspended"
                                            ELSE "expired"]
                         ELSE d.before[u]]
       /\ (e.type = RENEWED /\ d.ok) =>
            d.after = [u \in Users |->
                         IF RowOf(d.before, e, u)
                         THEN [d.before[u] EXCEPT
                                 !.status = "active",
                                 !.expires_at = IF e.next_billing_time # NULL_TIME
                                                THEN e.next_billing_time ELSE @]
                         ELSE d.before[u]]
       /\ (e.type = PAYMENT_FAILED \/ (e.type # ACTIVATED /\ ~d.ok)) =>
            d.after = d.before
       /\ e.type # ACTIVATED =>
            \A u \in Users : ~RowOf(d.before, e, u) => d.after[u] = d.before[u]

\* a renewed event moved the expiry date of its subscription and left the
\* row of the other subscription alone
C23_Witness ==
  /\ Len(deliveries) >= 1
  /\ deliveries[1].ok
  /\ deliveries[1].event.type = RENEWED
  /\ deliveries[1].before[U1].found
  /\ deliveries[1].before[U1].expires_at = CACHE_TTL
  /\ deliveries[1].after[U1].expires_at = FAR_FUTURE
  /\ deliveries[1].after[U2] = deliveries[1].before[U2]


\* C24: after a delivery of an activated event in which no provider or
\* store call failed, a row carrying the event's PayPal subscription id is
\* stored with status active, the tier of the provider's plan id, the
\* monthly limit of that tier, and the provider's next billing time as
\* expires_at.
C24_ActivatedStored ==
  \A i \in 1..Len(deliveries) :
    LET d == deliveries[i]
        e == d.event
        tier == IF e.plan_id = "P-basic" THEN "basic"
                ELSE IF e.plan_id = "P-pro" THEN "pro"
                ELSE IF e.plan_id = "P-premium" THEN "premium"
                ELSE "basic"
    IN (e.type = ACTIVATED /\ e.hasResource /\ d.ok) =>
         \E u \in Users :
           /\ d.after[u].found
           /\ d.after[u].paypal_subscription_id = e.id
           /\ d.after[u].status = "active"
           /\ d.after[u].tier = tier
           /\ d.after[u].monthly_limit = PlanLimit(tier)
           /\ d.after[u].expires_at = e.next_billing_time


\* C25: after any sequence of create-subscription calls, cancel calls and
\* webhook events the subscription table holds at most one row for each
\* identity.
C25_OneRowPerIdentity ==
  \A u \in Users : Cardinality(RowsOfUser(subscriptionRows, u)) <= 1

\* the row an identity created was overwritten by its second create call
C25_Witness ==
  /\ createReq.pc = "done" /\ createReq.status = 200
  /\ events >= 2
  /\ Len(subscriptionRows) = 1
  /\ subscriptionRows[1].user_id = createReq.userId
  /\ subscriptionRows[1].paypal_subscription_id = "I-9"
  /\ subscriptionRows[1].tier = "pro"
  /\ hook.pc = "idle" /\ cancel.pc = "idle"


\* C29: after any sequence of create-subscription calls by any identities,
\* each PayPal subscription id is stored on the row of at most one identity.
C29_PaypalIdOneIdentity ==
  \A i \in 1..Len(subscriptionRows) : \A j \in 1..Len(subscriptionRows) :
    subscriptionRows[i].paypal_subscription_id =
      subscriptionRows[j].paypal_subscription_id
    => subscriptionRows[i].user_id = subscriptionRows[j].user_id


\* the timestamps of s less than a window before t
InWindow(s, t) ==
  LET Recent(ts) == t - ts < RATE_LIMIT_WINDOW
  IN SelectSeq(s, Recent)

\* request r leaves the upload middleware and the rate-limit test in this step
PassesLimiter(r) == req[r].pc = "upload" /\ req'[r].pc # "upload"

\* the call for identity u records the time of the call in this step
ConsumesSlot(u) ==
  rateLimitMap' = [rateLimitMap EXCEPT ![u] = Append(InWindow(@, now), now)]

Extractions(u) ==
  {r \in Reqs : /\ req[r].userId = u /\ req[r].pc = "done"
                /\ req[r].status = 200 /\ ~req[r].cached}

\* the count of the usage row an identity starts the month with in SpecQuota
CountAtStart(u) == IF u = U1 THEN BASIC_LIMIT - 1 ELSE 0

\* C27 as stated: with the analyses counted at the start of the month, the
\* requests of an identity answered 200 from an extraction never bring the
\* month's number above the monthly limit of its subscription.
C27_Original ==
  \A u \in Users :
    CountAtStart(u) + Cardinality(Extractions(u)) <= subscriptions[u].monthly_limit

\* request r passes its usage-limit check in this step
PassesQuota(r) ==
  /\ req[r].pc \in {"limit_usage", "limit_usage_ins"}
  /\ req'[r].pc \notin {"limit_usage", "limit_usage_ins", "msg_sub"}
  /\ req'[r].status # 500

\* C27: the quota is enforced against the count stored when the check
\* runs: a request is answered 200 from an extraction only after it passed
\* its usage-limit check, and a request of an identity whose subscription
\* has a finite limit L passes the check only when the count of the usage
\* row the check reads (0 for a row the check creates) is below L.
C27_QuotaAtCheck ==
  [][\A r \in Reqs :
       /\ Extracted(r) => req[r].pc = "vision"
       /\ (req[r].pc # "vision" /\ req'[r].pc = "vision") =>
            \/ req[r].pc = "limit_sub" /\ req'[r].sub.monthly_limit = UNLIMITED
            \/ PassesQuota(r)
       /\ PassesQuota(r) =>
            LET count == IF req[r].pc = "limit_usage"
                         THEN UsageSingle(usage_tracking, req[r].userId,
                                          currentMonth).analyses_count
                         ELSE 0
            IN count < req[r].sub.monthly_limit]_vars

\* two concurrent requests of the identity one analysis below its limit
\* were both answered 200 from an extraction, and both increments are stored
C27_Witness ==
  /\ Cardinality(Extractions(U1)) = 2
  /\ \A r \in Extractions(U1) : req[r].inc = "done"


\* C28: a store under a key that is present replaces the text and the
\* timestamp of its entry and nothing else: the number of entries, the other
\* entries and the position of the entry in the eviction order stay; and it
\* happens only when the entry has expired or was stored by a concurrent
\* request for the same key.
C28_CacheOverwrite ==
  [][\A r \in Reqs :
       LET k == req'[r].cacheKey
           i == CacheIndex(analysisCache, k)
       IN (Extracted(r) /\ i # 0) =>
            /\ Len(analysisCache') = Len(analysisCache)
            /\ analysisCache'[i].key = k
            /\ analysisCache'[i].text = req'[r].text
            /\ analysisCache'[i].timestamp = now
            /\ analysisCache'[i].ord = analysisCache[i].ord
            /\ \A j \in 1..Len(analysisCache) : j # i => analysisCache'[j] = analysisCache[j]
            /\ \/ now - analysisCache[i].timestamp >= CACHE_TTL
               \/ \E q \in Reqs \ {r} :
                    /\ req[q].cacheKey = k /\ req[q].pc = "done"
                    /\ req[q].status = 200 /\ ~req[q].cached
                    /\ req[q].storedAt = analysisCache[i].timestamp]_vars

\* the oldest entry of a full cache was stored again after it expired: it is
\* still the first of the hundred entries
C28_Witness ==
  /\ Len(analysisCache) = CACHE_MAX_SIZE
  /\ analysisCache[1].key = generateCacheKey(1, U1)
  /\ analysisCache[1].timestamp >= CACHE_TTL
  /\ analysisCache[1].text # <<"yo">>
  /\ analysisCache[2].owner = U2


\* C30: a webhook request whose signature verification reported not valid
\* is answered 401 'Invalid signature' in that step, with no event handler
\* started and the subscription rows as they were when it arrived; a request
\* whose verification threw starts no handler and leaves the rows as they
\* were; the verification runs only when a webhook id is configured.
C30_WebhookAuthenticity ==
  /\ hook.isValid # "" => hook.verify
  /\ hook.isValid = "invalid" =>
       /\ hook.pc = "done" /\ hook.status = 401 /\ hook.body = "Invalid signature"
       /\ ~hook.parsed
       /\ subscriptions = hook.before
  /\ hook.isValid = "throw" =>
       /\ hook.pc = "done" /\ ~hook.parsed
       /\ subscriptions = hook.before

\* a cancellation of the first identity's active subscription was refused
\* for its signature
C30_Witness ==
  /\ hook.isValid = "invalid"
  /\ hook.status = 401
  /\ hook.event.type = CANCELLED
  /\ hook.event.hasResource
  /\ hook.event.id = PaypalId(U1)
  /\ subscriptions[U1].found
  /\ subscriptions[U1].status = "active"

====
